---- MODULE Spec2Model ----
(***************************************************************************)
(* Model of the reorder-point (ROP) suggestion engine:                     *)
(*   rop_engine.py  ROPCalculationEngine                                   *)
(*   models.py      ROPPolicy, DemandStatistics, ROPSuggestion             *)
(*   admin.py       ROPSuggestionAdmin actions                             *)
(* Decimal quantities are exact rationals [n, d] while a call computes     *)
(* with them and integers in hundredths (ten-thousandths for the demand    *)
(* rate) once a DecimalField has stored them.  The models of the host     *)
(* system (Part, StockItemTracking, SupplierPart, PurchaseOrder and its    *)
(* line items) are taken with the fields and managers the code uses.       *)
(***************************************************************************)
EXTENDS Integers, Sequences, FiniteSets, TLC

VARIABLES
    now,          \* timezone.now(), in days
    stock,        \* part.get_stock_count(), hundredths, per part
    removals,     \* StockItemTracking removal rows per part: <<[quantity, date]>>
    allocated,    \* allocated_to_sales_orders() + allocated_to_build_orders(), hundredths
    forecast,     \* the forecasting plugin: None, or Some(provider)
    policies,     \* table ROPPolicy, keyed by part (one-to-one)
    stats,        \* table DemandStatistics, in insertion order
    suggestions,  \* table ROPSuggestion; the id of a row is its index
    orders,       \* table PurchaseOrder; the id of a row is its index
    lines,        \* table PurchaseOrderLineItem
    last,         \* what the last engine or admin operation did and returned
    run,          \* the concurrent invocations of calculate_part_rop
    urg           \* inputs and results of two calculate_urgency_score calls

vars == <<now, stock, removals, allocated, forecast, policies, stats,
          suggestions, orders, lines, last, run, urg>>

storeVars == <<now, stock, removals, allocated, forecast, policies, stats,
               suggestions, orders, lines, last>>

envVars == <<now, stock, removals, allocated, forecast>>

----------------------------------------------------------------------------
(* Python None and optional values *)

None == <<>>

Some(v) == <<v>>

IsNone(o) == o = <<>>

Val(o) == o[1]

\* truthiness of an optional number: None and 0 are both falsy
Truthy(o) == o # <<>> /\ o[1] # 0

----------------------------------------------------------------------------
(* Exact arithmetic on Decimal values *)

Abs(i) == IF i < 0 THEN -i ELSE i

Max(a, b) == IF a >= b THEN a ELSE b

Min(a, b) == IF a <= b THEN a ELSE b

RECURSIVE GCD(_, _)
GCD(a, b) == IF b = 0 THEN a ELSE GCD(b, a % b)

Rat(n, d) ==
    LET g == GCD(Abs(n), d)
    IN  IF n = 0 THEN [n |-> 0, d |-> 1] ELSE [n |-> n \div g, d |-> d \div g]

RInt(i) == [n |-> i, d |-> 1]

RAdd(a, b) == Rat(a.n * b.d + b.n * a.d, a.d * b.d)

RSub(a, b) == Rat(a.n * b.d - b.n * a.d, a.d * b.d)

\* the product n1/d1 * n2/d2, common factors cancelled before multiplying
RMulBy(n1, d1, n2, d2, g1, g2) ==
    Rat((n1 \div g1) * (n2 \div g2), (d1 \div g2) * (d2 \div g1))

RMul(a, b) ==
    IF a.n = 0 \/ b.n = 0 THEN [n |-> 0, d |-> 1]
    ELSE RMulBy(a.n, a.d, b.n, b.d, GCD(Abs(a.n), b.d), GCD(Abs(b.n), a.d))

\* b # 0
RDiv(a, b) == IF b.n > 0 THEN RMul(a, [n |-> b.d, d |-> b.n])
                          ELSE RMul(a, [n |-> -b.d, d |-> -b.n])

RLt(a, b) == a.n * b.d < b.n * a.d

RLe(a, b) == a.n * b.d <= b.n * a.d

RMax(a, b) == IF RLe(b, a) THEN a ELSE b

RMin(a, b) == IF RLe(a, b) THEN a ELSE b

\* int(Decimal): truncation toward zero
RTrunc(a) == IF a.n >= 0 THEN a.n \div a.d ELSE -((-a.n) \div a.d)

\* q + r/d, 0 <= r < d, rounded half-even to a whole number
HalfEven(q, r, d) ==
    IF 2 * r < d THEN q
    ELSE IF 2 * r > d THEN q + 1
    ELSE IF q % 2 = 0 THEN q ELSE q + 1

\* round-half-even to a whole number
RRound(a) == HalfEven(a.n \div a.d, a.n % a.d, a.d)

\* (q + r/d) * 10^k by long division, rounded half-even
RECURSIVE RoundShifted(_, _, _, _)
RoundShifted(q, r, d, k) ==
    IF k = 0 THEN HalfEven(q, r, d)
    ELSE RoundShifted(q * 10 + (r * 10) \div d, (r * 10) % d, d, k - 1)

\* what a DecimalField(decimal_places=2) keeps of a value, in hundredths
Quantize2(a) == RoundShifted(a.n \div a.d, a.n % a.d, a.d, 2)

\* what a DecimalField(decimal_places=4) keeps of a value, in ten-thousandths
Quantize4(a) == RoundShifted(a.n \div a.d, a.n % a.d, a.d, 4)

\* the Decimal a DecimalField(decimal_places=2) hands back
FromDb2(h) == Rat(h, 100)

FromDb4(t) == Rat(t, 10000)

----------------------------------------------------------------------------
(* models.py: ROPSuggestion.calculate_urgency_score                        *)
(* days, lead_time: optional integers; projected_stock, calculated_rop:    *)
(* rationals.  The result is in hundredths of a point.                     *)

time_score(days) ==
    IF days <= 0 THEN RInt(50)
    ELSE IF days <= 7 THEN RInt(40)
    ELSE IF days <= 14 THEN RInt(30)
    ELSE IF days <= 30 THEN RInt(20)
    ELSE RMax(RInt(0), RSub(RInt(20), Rat(days - 30, 10)))

severity_score(projected_stock, calculated_rop) ==
    IF RLe(projected_stock, RInt(0)) THEN RInt(30)
    ELSE LET shortage_ratio ==
                 IF calculated_rop.n = 0 THEN RInt(0)
                 ELSE RDiv(RSub(calculated_rop, projected_stock), calculated_rop)
         IN  RMin(RInt(30), RMul(shortage_ratio, RInt(30)))

lead_time_score(days, lead_time) ==
    IF Truthy(lead_time) /\ Truthy(days)
    THEN IF Val(days) < Val(lead_time) THEN RInt(20)
         ELSE IF 2 * Val(days) < 3 * Val(lead_time) THEN RInt(15)
         ELSE RInt(10)
    ELSE RInt(10)

\* a score that takes an unknown day count for a stockout due today
calculate_urgency_score_unknown_as_due(days, projected_stock, calculated_rop, lead_time) ==
    Quantize2(RMin(RInt(100),
        RAdd(RAdd(time_score(IF IsNone(days) THEN 0 ELSE Val(days)),
                  severity_score(projected_stock, calculated_rop)),
             lead_time_score(days, lead_time))))

calculate_urgency_score(days, projected_stock, calculated_rop, lead_time) ==
    IF ~Truthy(days) THEN 10000
    ELSE Quantize2(RMin(RInt(100),
             RAdd(RAdd(time_score(Val(days)),
                       severity_score(projected_stock, calculated_rop)),
                  lead_time_score(days, lead_time))))

----------------------------------------------------------------------------
(* Bounds of the model *)

\* rows ever held by the table DemandStatistics
MaxStats == 3

\* rows ever held by the table PurchaseOrder
MaxOrders == 2

----------------------------------------------------------------------------
(* Settings and fixed data of the host system *)

\* core.py SETTINGS['LOOKBACK_PERIOD_DAYS']['default']
LOOKBACK_PERIOD_DAYS == 90

\* core.py SETTINGS['MIN_DEMAND_SAMPLES']['default']
MIN_DEMAND_SAMPLES == 5

\* rop_engine.py: lead_time = 30  # Default fallback
DefaultLeadTime == 30

\* the parts of the host system; PartIds also holds an id no part has
Parts == {1, 2}

PartIds == {1, 2, 3}

\* the stock counts a part can have, in hundredths
StockLevels(p) == IF p = 1 THEN {500, 2750} ELSE {500}

Removal(q, d) == [quantity |-> q, date |-> d]

\* the removal rows a part can have: for part 1 four events, or five that
\* total 225 (variance 36); for part 2 four countable events, or five that
\* total 270 (variance 324)
RemovalHistories(p) ==
    IF p = 1
    THEN { << Removal(54, 60), Removal(36, 65), Removal(48, 70), Removal(42, 80) >>,
           << Removal(54, 60), Removal(36, 65), Removal(48, 70), Removal(42, 80),
              Removal(45, 95) >> }
    ELSE { << Removal(45, 9), Removal(0, 50), Removal(-45, 70), Removal(45, 80),
              Removal(90, 85), Removal(45, 90) >>,
           << Removal(45, 10), Removal(0, 50), Removal(-45, 70), Removal(45, 80),
              Removal(90, 85), Removal(45, 90) >> }

\* supplier options per part, in supplier-name order
SupplierParts(p) ==
    IF p = 1
    THEN << [supplier |-> 1, lead_time |-> Some(7), is_supplier |-> TRUE, is_active |-> TRUE] >>
    ELSE << >>

ManufacturerParts(p) == << >>

\* a forecasting plugin that returns this series for every part
Provider(series) == [raises |-> "no", series |-> series]

\* a forecasting plugin whose lookup in the registry ("lookup") or whose
\* get_forecast_for_part ("fetch") raises
RaisingProvider(at) == [raises |-> at, series |-> << >>]

\* the forecasting plugin is absent, or returns this series for every part
ForecastChoices ==
    { None,
      Some(Provider(<< [date |-> 99, projected_stock |-> 100],
                       [date |-> 103, projected_stock |-> 0] >>)) }

----------------------------------------------------------------------------
(* Sequence helpers *)

RECURSIVE SelectIdx(_, _)
\* the indices i >= k at which the sequence of booleans `hit` is TRUE, ascending
SelectIdx(hit, k) ==
    IF k > Len(hit) THEN << >>
    ELSE IF hit[k] THEN <<k>> \o SelectIdx(hit, k + 1)
    ELSE SelectIdx(hit, k + 1)

\* the elements of s at the indices idx
Pick(s, idx) == [i \in 1..Len(idx) |-> s[idx[i]]]

RECURSIVE SumSeq(_)
SumSeq(s) == IF s = << >> THEN 0 ELSE Head(s) + SumSeq(Tail(s))

\* floor of the square root of a natural number x, by bisection:
\* lo * lo <= x < hi * hi
RECURSIVE ISqrtIn(_, _, _)
ISqrtIn(x, lo, hi) ==
    IF hi - lo <= 1 THEN lo
    ELSE IF ((lo + hi) \div 2) * ((lo + hi) \div 2) <= x
         THEN ISqrtIn(x, (lo + hi) \div 2, hi)
         ELSE ISqrtIn(x, lo, (lo + hi) \div 2)

ISqrt(x) == ISqrtIn(x, 0, 46341)

\* math.sqrt of a non-negative rational: exact for a ratio of squares, else
\* to as many decimals, at most four, as 32-bit arithmetic allows
RSqrt(a) ==
    IF ISqrt(a.n) * ISqrt(a.n) = a.n /\ ISqrt(a.d) * ISqrt(a.d) = a.d
    THEN Rat(ISqrt(a.n), ISqrt(a.d))
    ELSE IF a.n <= 21 THEN Rat(ISqrt((a.n * 100000000) \div a.d), 10000)
    ELSE IF a.n <= 2147 THEN Rat(ISqrt((a.n * 1000000) \div a.d), 1000)
    ELSE Rat(ISqrt((a.n * 10000) \div a.d), 100)

----------------------------------------------------------------------------
(* models.py: ROPPolicy *)

\* the instance ROPPolicy.objects.get_or_create(part, defaults={'enabled': True}) builds
DefaultPolicy ==
    [ enabled                     |-> TRUE,
      safety_stock                |-> 0,
      use_calculated_safety_stock |-> FALSE,
      service_level               |-> 95,
      custom_lookback_days        |-> None,
      target_stock_multiplier     |-> 200,
      last_calculated_rop         |-> None,
      last_calculated_demand_rate |-> None,
      last_calculation_date       |-> None ]

\* a manual safety stock of 10.00 over the global lookback period
ManualConfig ==
    [enabled |-> TRUE, safety_stock |-> 1000, use_calculated_safety_stock |-> FALSE,
     service_level |-> 95, custom_lookback_days |-> None, target_stock_multiplier |-> 200]

\* a calculated safety stock over a 45-day window
CalculatedConfig ==
    [enabled |-> TRUE, safety_stock |-> 1000, use_calculated_safety_stock |-> TRUE,
     service_level |-> 90, custom_lookback_days |-> Some(45), target_stock_multiplier |-> 150]

\* what a configuration edit may set on the policy of part p
PolicyConfigs(p) ==
    IF p # 1 THEN {} ELSE
    { ManualConfig,
      [ManualConfig EXCEPT !.enabled = FALSE],
      [CalculatedConfig EXCEPT !.custom_lookback_days = Some(30)] }

get_effective_lookback_days(policy) ==
    IF Truthy(policy.custom_lookback_days)
    THEN Val(policy.custom_lookback_days)
    ELSE LOOKBACK_PERIOD_DAYS

----------------------------------------------------------------------------
(* rop_engine.py: the steps of the pipeline that only read the store *)

\* removal_list: abs(q) of the rows in the window whose quantity is not 0
removal_list(p, lookback_days) ==
    LET InWindow(r) == r.date >= now - lookback_days /\ r.quantity # 0
        Quantity(i) == Abs(removals[p][i].quantity)
    IN  Pick([i \in 1..Len(removals[p]) |-> Quantity(i)],
             SelectIdx([i \in 1..Len(removals[p]) |-> InWindow(removals[p][i])], 1))

\* sum((x - mean) ** 2 for x in list) / n with mean = total / n
variance_of(list, n, total) ==
    Rat(SumSeq([i \in 1..n |-> (n * list[i] - total) * (n * list[i] - total)]),
        n * n * n)

std_dev_daily_of(list, n, total, lookback_days) ==
    IF n > 1
    THEN RMul(RSqrt(variance_of(list, n, total)), RSqrt(Rat(n, lookback_days)))
    ELSE RInt(0)

\* demand spread over the removal events and not over the days of the window
demand_data_of_per_event(list, total_removed, lookback_days) ==
    IF Len(list) < MIN_DEMAND_SAMPLES THEN None
    ELSE Some([ mean_daily_demand    |-> Rat(total_removed, Len(list)),
                std_dev_daily_demand |-> std_dev_daily_of(list, Len(list), total_removed,
                                                          lookback_days),
                removal_count        |-> Len(list),
                analysis_period_days |-> lookback_days ])

\* lines 224-249: None when there are too few samples, else Some(demand_data)
demand_data_of(list, total_removed, lookback_days) ==
    IF Len(list) < MIN_DEMAND_SAMPLES THEN None
    ELSE Some([ mean_daily_demand    |-> Rat(total_removed, lookback_days),
                std_dev_daily_demand |-> std_dev_daily_of(list, Len(list), total_removed,
                                                          lookback_days),
                removal_count        |-> Len(list),
                analysis_period_days |-> lookback_days ])

demand_of_list(list, lookback_days) == demand_data_of(list, SumSeq(list), lookback_days)

calculate_demand_rate(p, policy) ==
    demand_of_list(removal_list(p, get_effective_lookback_days(policy)),
                   get_effective_lookback_days(policy))

\* a lookup that takes the nearest listed percentile at or below the level
service_level_to_z_score_nearest_below(service_level_pct) ==
    IF service_level_pct >= 999 THEN 3090
    ELSE IF service_level_pct >= 995 THEN 2576
    ELSE IF service_level_pct >= 990 THEN 2326
    ELSE IF service_level_pct >= 980 THEN 2054
    ELSE IF service_level_pct >= 970 THEN 1881
    ELSE IF service_level_pct >= 950 THEN 1645
    ELSE IF service_level_pct >= 900 THEN 1282
    ELSE IF service_level_pct >= 850 THEN 1036
    ELSE IF service_level_pct >= 800 THEN 842
    ELSE IF service_level_pct >= 750 THEN 674
    ELSE IF service_level_pct >= 500 THEN 0
    ELSE 1645

\* the z-score table: the level in tenths of a percent, the score in
\* thousandths
service_level_to_z_score(service_level_pct) ==
    CASE service_level_pct = 500 -> 0
      [] service_level_pct = 750 -> 674
      [] service_level_pct = 800 -> 842
      [] service_level_pct = 850 -> 1036
      [] service_level_pct = 900 -> 1282
      [] service_level_pct = 950 -> 1645
      [] service_level_pct = 970 -> 1881
      [] service_level_pct = 980 -> 2054
      [] service_level_pct = 990 -> 2326
      [] service_level_pct = 995 -> 2576
      [] service_level_pct = 999 -> 3090
      [] OTHER -> 1645

\* the lead time of the first of the given supplier parts, else of the
\* first manufacturer part, else None
first_lead_time(sps, mps) ==
    IF sps # << >> THEN sps[1].lead_time
    ELSE IF mps # << >> THEN mps[1].lead_time
    ELSE None

get_lead_time(p) ==
    LET IsSupplier(sp) == sp.is_supplier
    IN  first_lead_time(Pick(SupplierParts(p),
                             SelectIdx([i \in 1..Len(SupplierParts(p)) |->
                                           IsSupplier(SupplierParts(p)[i])], 1)),
                        ManufacturerParts(p))

\* lines 114-117: lead_time, or 30 when it is None
default_if_none(lead_time) == IF IsNone(lead_time) THEN DefaultLeadTime ELSE Val(lead_time)

lead_time_or_default(p) == default_if_none(get_lead_time(p))

\* a product that involves a square root, kept to four decimals
Approx(a) == FromDb4(Quantize4(a))

\* a safety stock computed from the demand whatever the policy says
calculate_safety_stock_always_calculated(p, policy, demand_data) ==
    RMax(RInt(0),
         Approx(RMul(Rat(service_level_to_z_score(policy.service_level * 10), 1000),
                     Approx(RMul(demand_data.std_dev_daily_demand,
                                 RSqrt(RInt(lead_time_or_default(p))))))))

calculate_safety_stock(p, policy, demand_data) ==
    IF ~policy.use_calculated_safety_stock THEN FromDb2(policy.safety_stock)
    ELSE RMax(RInt(0),
              Approx(RMul(Rat(service_level_to_z_score(policy.service_level * 10), 1000),
                          Approx(RMul(demand_data.std_dev_daily_demand,
                                      RSqrt(RInt(lead_time_or_default(p))))))))

\* an inbound quantity that counts the lines of draft orders too
get_inbound_po_quantity_with_drafts(p) ==
    LET Open(l) == /\ l.part = p
                   /\ orders[l.order].status \in {"PENDING", "PLACED", "COMPLETE"}
                   /\ ~(l.received >= l.quantity)
        Outstanding(i) == lines[i].quantity - lines[i].received
    IN  SumSeq(Pick([i \in 1..Len(lines) |-> Outstanding(i)],
                    SelectIdx([i \in 1..Len(lines) |-> Open(lines[i])], 1)))

get_inbound_po_quantity(p) ==
    LET Open(l) == /\ l.part = p
                   /\ orders[l.order].status \in {"PLACED", "COMPLETE"}
                   /\ ~(l.received >= l.quantity)
        Outstanding(i) == lines[i].quantity - lines[i].received
    IN  SumSeq(Pick([i \in 1..Len(lines) |-> Outstanding(i)],
                    SelectIdx([i \in 1..Len(lines) |-> Open(lines[i])], 1)))

calculate_projected_stock(p) ==
    Rat(stock[p] + get_inbound_po_quantity(p) - allocated[p], 100)

\* lines 515-524 on the active supplier parts `act`
preferred_of(act, withLead) ==
    IF act = << >> THEN None
    ELSE IF withLead # << >> THEN Some(act[withLead[1]].supplier)
    ELSE Some(act[1].supplier)

first_with_lead_time(act) ==
    LET HasLead(sp) == Truthy(sp.lead_time)
    IN  preferred_of(act, SelectIdx([i \in 1..Len(act) |-> HasLead(act[i])], 1))

\* lines 510-524 on the supplier parts sps of the part, in query order
preferred_among(sps) ==
    LET Active(sp) == sp.is_supplier /\ sp.is_active
    IN  first_with_lead_time(Pick(sps,
                                  SelectIdx([i \in 1..Len(sps) |-> Active(sps[i])], 1)))

get_preferred_supplier(p) == preferred_among(SupplierParts(p))

\* datetime.date.max (9999-12-31) on the day count of `now`, for a run on
\* 2026-11-03
DateMaxDay == 2912236

\* lines 482-492: today + timedelta(days): a date past date.max raises
\* OverflowError, which the except clause turns into "no stockout"
stockout_on(days_until) ==
    IF now + days_until > DateMaxDay THEN [date |-> None, days |-> None]
    ELSE [date |-> Some(now + days_until), days |-> Some(days_until)]

\* lines 477-480: int((current_stock - rop) / demand_rate), at least 0
days_until(current_stock, rop, demand_rate) ==
    Max(0, RTrunc(RDiv(RSub(current_stock, rop), demand_rate)))

\* lines 468-488 with the cached demand rate `rate` of the policy row
stockout_from_rate(rate, current_stock, rop) ==
    IF ~Truthy(rate) THEN [date |-> None, days |-> None]
    ELSE IF Val(rate) <= 0 THEN [date |-> None, days |-> None]
    ELSE stockout_on(days_until(current_stock, rop, FromDb4(Val(rate))))

\* the policy row is read back from the store with ROPPolicy.objects.get
estimate_stockout_simple(pols, p, rop) ==
    stockout_from_rate(Val(pols[p]).last_calculated_demand_rate, Rat(stock[p], 100), rop)

\* a test that also takes a point at rop
below_rop_or_at(point, rop) == RLe(Rat(point.projected_stock, 100), rop)

\* line 438: forecast_point['projected_stock'] < rop
below_rop(point, rop) == RLt(Rat(point.projected_stock, 100), rop)

RECURSIVE first_below(_, _, _)
\* lines 437-447: the first forecast point, from index k, whose
\* projected_stock is below rop; a point without the key 'projected_stock',
\* or a point below rop without the key 'date', raises KeyError
first_below(series, rop, k) ==
    IF k > Len(series) THEN [raised |-> FALSE, date |-> None, days |-> None]
    ELSE IF "projected_stock" \notin DOMAIN series[k]
         THEN [raised |-> TRUE, date |-> None, days |-> None]
    ELSE IF below_rop(series[k], rop)
         THEN IF "date" \notin DOMAIN series[k]
              THEN [raised |-> TRUE, date |-> None, days |-> None]
              ELSE [raised |-> FALSE, date |-> Some(series[k].date),
                    days |-> Some(series[k].date - now)]
    ELSE first_below(series, rop, k + 1)

\* lines 424-447 with a plugin in the registry; raised tells whether the
\* except clause of line 449 is entered
forecast_stockout(provider, rop) ==
    IF provider.raises # "no" THEN [raised |-> TRUE, date |-> None, days |-> None]
    ELSE first_below(provider.series, rop, 1)

\* a prediction that reports no stockout where the code falls back
get_stockout_prediction_no_fallback(pols, p, rop) ==
    IF IsNone(forecast) THEN estimate_stockout_simple(pols, p, rop)
    ELSE [date |-> forecast_stockout(Val(forecast), rop).date,
          days |-> forecast_stockout(Val(forecast), rop).days]

get_stockout_prediction(pols, p, rop) ==
    IF IsNone(forecast) THEN estimate_stockout_simple(pols, p, rop)
    ELSE IF forecast_stockout(Val(forecast), rop).raised
    THEN estimate_stockout_simple(pols, p, rop)
    ELSE [date |-> forecast_stockout(Val(forecast), rop).date,
          days |-> forecast_stockout(Val(forecast), rop).days]

----------------------------------------------------------------------------
(* rop_engine.py: calculate_part_rop, in the order of its store accesses.  *)
(* db is the part of the store the pipeline writes:                        *)
(* [policies, stats, suggestions].                                         *)

NoValues ==
    [ suggested_order_qty |-> RInt(0), current_stock |-> RInt(0),
      projected_stock |-> RInt(0), calculated_rop |-> RInt(0),
      stockout_date |-> None, days_until_stockout |-> None,
      suggested_supplier |-> None, lead_time_days |-> None ]

\* an early return of lines 89-108
PrepEnd(db, outcome, created) ==
    [db |-> db, outcome |-> outcome, created |-> created,
     policy |-> DefaultPolicy, rop |-> RInt(0), lead_time |-> 0]

\* lines 124-126: the cached values set on the policy
with_cache(policy, rop, mean_daily_demand) ==
    [policy EXCEPT
        !.last_calculated_rop = Some(Quantize2(rop)),
        !.last_calculated_demand_rate = Some(Quantize4(mean_daily_demand)),
        !.last_calculation_date = Some(now)]

\* lines 130-137: the new DemandStatistics row
stats_row(p, demand_data, safety_stock) ==
    [ rop_policy              |-> p,
      calculation_date        |-> now,
      mean_daily_demand       |-> Quantize4(demand_data.mean_daily_demand),
      std_dev_daily_demand    |-> Quantize4(demand_data.std_dev_daily_demand),
      total_removals          |-> demand_data.removal_count,
      analysis_period_days    |-> demand_data.analysis_period_days,
      calculated_safety_stock |-> Some(Quantize2(safety_stock)) ]

\* statistics written only by a run that goes on to a suggestion
save_statistics_if_short(db, p, policy, rop, demand_data, safety_stock) ==
    IF RLe(rop, calculate_projected_stock(p)) THEN db
    ELSE [db EXCEPT
            !.policies[p] = Some(with_cache(policy, rop, demand_data.mean_daily_demand)),
            !.stats = Append(@, stats_row(p, demand_data, safety_stock))]

\* lines 123-137: policy.save() and DemandStatistics.objects.create()
save_statistics(db, p, policy, rop, demand_data, safety_stock) ==
    [db EXCEPT
        !.policies[p] = Some(with_cache(policy, rop, demand_data.mean_daily_demand)),
        !.stats = Append(@, stats_row(p, demand_data, safety_stock))]

\* lines 119-137 once demand, safety stock and lead time are known
PrepareRop(db, p, created, policy, demand_data, safety_stock, lead_time, rop) ==
    [db |-> save_statistics(db, p, policy, rop, demand_data, safety_stock),
     outcome |-> "ok", created |-> created,
     policy |-> with_cache(policy, rop, demand_data.mean_daily_demand),
     rop |-> rop, lead_time |-> lead_time]

\* lines 120-121 without the safety stock
PrepareStock_demand_only(db, p, created, policy, demand_data, safety_stock, lead_time) ==
    PrepareRop(db, p, created, policy, demand_data, safety_stock, lead_time,
               RMul(demand_data.mean_daily_demand, RInt(lead_time)))

PrepareStock(db, p, created, policy, demand_data, safety_stock, lead_time) ==
    PrepareRop(db, p, created, policy, demand_data, safety_stock, lead_time,
               RAdd(RMul(demand_data.mean_daily_demand, RInt(lead_time)), safety_stock))

\* lines 104-108 in a run that stamps the policy before it counts the samples
PrepareDemand_stamped(db, p, created, policy, demand) ==
    IF IsNone(demand)
    THEN PrepEnd([db EXCEPT !.policies[p] =
                      Some([policy EXCEPT !.last_calculation_date = Some(now)])],
                 "insufficient", created)
    ELSE PrepareStock(db, p, created, policy, Val(demand),
                      calculate_safety_stock(p, policy, Val(demand)),
                      lead_time_or_default(p))

\* lines 104-117
PrepareDemand(db, p, created, policy, demand) ==
    IF IsNone(demand) THEN PrepEnd(db, "insufficient", created)
    ELSE PrepareStock(db, p, created, policy, Val(demand),
                      calculate_safety_stock(p, policy, Val(demand)),
                      lead_time_or_default(p))

\* lines 96-102 in a run that does not test policy.enabled
PreparePolicy_ignoring_enabled(db, p, created, policy) ==
    PrepareDemand([db EXCEPT !.policies[p] = Some(policy)], p, created, policy,
                  calculate_demand_rate(p, policy))

\* lines 96-102: get_or_create has inserted the policy when it built it
PreparePolicy(db, p, created, policy) ==
    IF ~policy.enabled
    THEN PrepEnd([db EXCEPT !.policies[p] = Some(policy)], "disabled", created)
    ELSE PrepareDemand([db EXCEPT !.policies[p] = Some(policy)], p, created, policy,
                       calculate_demand_rate(p, policy))

\* lines 89-137: part lookup, policy get_or_create, demand rate, safety
\* stock, lead time, rop, policy.save() and the new DemandStatistics row
Prepare(db, p) ==
    IF p \notin Parts THEN PrepEnd(db, "no_part", FALSE)
    ELSE IF IsNone(db.policies[p]) THEN PreparePolicy(db, p, TRUE, DefaultPolicy)
    ELSE PreparePolicy(db, p, FALSE, Val(db.policies[p]))

\* an expiry that takes every suggestion of the policy
expire_pending_any_status(sugs, p) ==
    [i \in 1..Len(sugs) |->
        IF sugs[i].rop_policy = p THEN [sugs[i] EXCEPT !.status = "EXPIRED"]
        ELSE sugs[i]]

\* lines 146-149: ROPSuggestion.objects.filter(policy, PENDING).update(EXPIRED)
expire_pending(sugs, p) ==
    [i \in 1..Len(sugs) |->
        IF sugs[i].rop_policy = p /\ sugs[i].status = "PENDING"
        THEN [sugs[i] EXCEPT !.status = "EXPIRED"]
        ELSE sugs[i]]

\* line 143 as a strict comparison: equality counts as a shortage
reorder_needed_at_rop(projected_stock, rop) == ~RLt(rop, projected_stock)

\* line 143: the pipeline goes on to a suggestion unless projected_stock >= rop
reorder_needed(projected_stock, rop) == ~RLe(rop, projected_stock)

\* the values of a suggestion that orders up to the rop itself
suggestion_values_up_to_rop(p, prep, projected_stock, stockout_info) ==
    [ suggested_order_qty |-> RMax(RInt(0), RSub(prep.rop, projected_stock)),
      current_stock       |-> Rat(stock[p], 100),
      projected_stock     |-> projected_stock,
      calculated_rop      |-> prep.rop,
      stockout_date       |-> stockout_info.date,
      days_until_stockout |-> stockout_info.days,
      suggested_supplier  |-> get_preferred_supplier(p),
      lead_time_days      |-> Some(prep.lead_time) ]

\* lines 153-175: the values of the suggestion
suggestion_values(p, prep, projected_stock, stockout_info) ==
    [ suggested_order_qty |-> RMax(RInt(0),
                                  RSub(RMul(prep.rop,
                                            FromDb2(prep.policy.target_stock_multiplier)),
                                       projected_stock)),
      current_stock       |-> Rat(stock[p], 100),
      projected_stock     |-> projected_stock,
      calculated_rop      |-> prep.rop,
      stockout_date       |-> stockout_info.date,
      days_until_stockout |-> stockout_info.days,
      suggested_supplier  |-> get_preferred_supplier(p),
      lead_time_days      |-> Some(prep.lead_time) ]

\* where line 143 finds projected_stock against rop
stock_against_rop(projected_stock, rop) ==
    IF RLt(projected_stock, rop) THEN "below"
    ELSE IF RLt(rop, projected_stock) THEN "above"
    ELSE "equal"

\* lines 143-160.  A policy built by get_or_create in this call still holds
\* the field default 2.0, a float, as target_stock_multiplier: rop * 2.0
\* raises TypeError (line 153).
DecideWith(db, p, prep, projected_stock) ==
    IF ~reorder_needed(projected_stock, prep.rop)
    THEN [db |-> [db EXCEPT !.suggestions = expire_pending(@, p)],
          outcome |-> "sufficient", values |-> NoValues,
          cmp |-> stock_against_rop(projected_stock, prep.rop)]
    ELSE IF prep.created
    THEN [db |-> db, outcome |-> "raised", values |-> NoValues,
          cmp |-> stock_against_rop(projected_stock, prep.rop)]
    ELSE [db |-> db, outcome |-> "upsert",
          values |-> suggestion_values(p, prep, projected_stock,
                         get_stockout_prediction(db.policies, p, prep.rop)),
          cmp |-> stock_against_rop(projected_stock, prep.rop)]

\* lines 139-160, after Prepare ended "ok"
Decide(db, p, prep) == DecideWith(db, p, prep, calculate_projected_stock(p))

\* the fields update_or_create sets from `defaults`; the DecimalFields keep
\* two places
set_values(row, values) ==
    [ row EXCEPT
        !.suggested_order_qty = Quantize2(values.suggested_order_qty),
        !.current_stock       = Quantize2(values.current_stock),
        !.projected_stock     = Quantize2(values.projected_stock),
        !.calculated_rop      = Quantize2(values.calculated_rop),
        !.stockout_date       = values.stockout_date,
        !.days_until_stockout = values.days_until_stockout,
        !.suggested_supplier  = values.suggested_supplier,
        !.lead_time_days      = values.lead_time_days ]

\* models.py ROPSuggestion.save on the instance update_or_create builds from
\* `values` and inserts: the urgency score is computed from the instance's
\* attributes and every column is written
save_new(row, values) ==
    [ set_values(row, values) EXCEPT
        !.urgency_score = calculate_urgency_score(values.days_until_stockout,
                              values.projected_stock, values.calculated_rop,
                              values.lead_time_days) ]

\* ROPSuggestion.save on a row read back from the store, every column written
save_row(row) ==
    [ row EXCEPT
        !.urgency_score = calculate_urgency_score(row.days_until_stockout,
                              FromDb2(row.projected_stock), FromDb2(row.calculated_rop),
                              row.lead_time_days) ]

NewSuggestion(p) ==
    [ rop_policy |-> p, suggested_order_qty |-> 0, current_stock |-> 0,
      projected_stock |-> 0, calculated_rop |-> 0, stockout_date |-> None,
      days_until_stockout |-> None, urgency_score |-> 0,
      suggested_supplier |-> None, lead_time_days |-> None,
      status |-> "PENDING", actioned_date |-> None, purchase_order |-> None ]

\* the lookup of update_or_create(rop_policy=policy, status='PENDING'): the
\* ids of the matching rows
lookup_pending(sugs, p) ==
    LET Match(s) == s.rop_policy = p /\ s.status = "PENDING"
    IN  SelectIdx([i \in 1..Len(sugs) |-> Match(sugs[i])], 1)

\* an upsert that inserts a new row where the code updates the one it found
write_suggestion_insert_on_found(sugs, p, found, values) ==
    IF Len(found) <= 1
    THEN [suggestions |-> Append(sugs, save_new(NewSuggestion(p), values)),
          outcome |-> "created", ret |-> Some(Len(sugs) + 1)]
    ELSE [suggestions |-> sugs, outcome |-> "raised", ret |-> None]

\* the write of update_or_create after the lookup found `found`: insert when
\* nothing matched; when one row matched, set the defaults on it and save
\* with update_fields = the keys of defaults (Django >= 4.2, which InvenTree
\* 0.18 runs on), so the urgency_score save() computes is not written;
\* MultipleObjectsReturned when several matched
write_suggestion(sugs, p, found, values) ==
    IF found = << >>
    THEN [suggestions |-> Append(sugs, save_new(NewSuggestion(p), values)),
          outcome |-> "created", ret |-> Some(Len(sugs) + 1)]
    ELSE IF Len(found) = 1
    THEN [suggestions |-> [sugs EXCEPT ![found[1]] = set_values(@, values)],
          outcome |-> "updated", ret |-> Some(found[1])]
    ELSE [suggestions |-> sugs, outcome |-> "raised", ret |-> None]

\* what calculate_part_rop leaves and returns
Returned(db, outcome, ret, cmp) ==
    [db |-> db, outcome |-> outcome, ret |-> ret, cmp |-> cmp]

AfterWrite(db, w, cmp) ==
    Returned([db EXCEPT !.suggestions = w.suggestions], w.outcome, w.ret, cmp)

AfterDecide(p, dec) ==
    IF dec.outcome # "upsert" THEN Returned(dec.db, dec.outcome, None, dec.cmp)
    ELSE AfterWrite(dec.db,
                    write_suggestion(dec.db.suggestions, p,
                                     lookup_pending(dec.db.suggestions, p), dec.values),
                    dec.cmp)

AfterPrepare(p, prep) ==
    IF prep.outcome # "ok" THEN Returned(prep.db, prep.outcome, None, "none")
    ELSE AfterDecide(p, Decide(prep.db, p, prep))

\* calculate_part_rop as one uninterrupted call
calculate_part_rop(db, p) == AfterPrepare(p, Prepare(db, p))

----------------------------------------------------------------------------
(* rop_engine.py: calculate_all_suggestions *)

\* ROPPolicy.objects.filter(enabled=True), in primary-key order
RECURSIVE enabled_policies(_, _)
enabled_policies(pols, k) ==
    IF k > Cardinality(Parts) THEN << >>
    ELSE IF ~IsNone(pols[k]) /\ Val(pols[k]).enabled
         THEN <<k>> \o enabled_policies(pols, k + 1)
         ELSE enabled_policies(pols, k + 1)

NoResults ==
    [ total_parts |-> 0, parts_analyzed |-> 0, suggestion_count |-> 0,
      errors |-> << >>, runs |-> << >> ]

\* lines 64-72: what one part's run adds to the results.  results.runs is
\* not in the code: it lists the parts the loop ran and how each run ended
count_run(results, p, r) ==
    IF r.outcome = "raised"
    THEN [results EXCEPT
            !.errors = Append(@, p),
            !.runs = Append(@, [part |-> p, outcome |-> r.outcome])]
    ELSE [results EXCEPT
            !.suggestion_count = IF IsNone(r.ret) THEN @ ELSE @ + 1,
            !.parts_analyzed = @ + 1,
            !.runs = Append(@, [part |-> p, outcome |-> r.outcome])]

RECURSIVE batch_loop(_, _, _)
RECURSIVE batch_step(_, _, _, _)

\* lines 61-72: one part's pipeline inside try/except, then the next part
batch_step(todo, results, p, r) ==
    batch_loop(r.db, Tail(todo), count_run(results, p, r))

batch_loop(db, todo, results) ==
    IF todo = << >> THEN [db |-> db, results |-> results]
    ELSE batch_step(todo, results, Head(todo), calculate_part_rop(db, Head(todo)))

RECURSIVE batch_loop_abort(_, _, _)
RECURSIVE batch_step_abort(_, _, _, _)

\* a loop whose first raising run ends the batch
batch_step_abort(todo, results, p, r) ==
    IF r.outcome = "raised" THEN [db |-> r.db, results |-> count_run(results, p, r)]
    ELSE batch_loop_abort(r.db, Tail(todo), count_run(results, p, r))

batch_loop_abort(db, todo, results) ==
    IF todo = << >> THEN [db |-> db, results |-> results]
    ELSE batch_step_abort(todo, results, Head(todo), calculate_part_rop(db, Head(todo)))

batch_over_abort(db, todo) ==
    batch_loop_abort(db, todo, [NoResults EXCEPT !.total_parts = Len(todo)])

\* lines 58-74 over the enabled policies `todo`
batch_over(db, todo) ==
    batch_loop(db, todo, [NoResults EXCEPT !.total_parts = Len(todo)])

calculate_all_suggestions(db) == batch_over(db, enabled_policies(db.policies, 1))

----------------------------------------------------------------------------
(* rop_engine.py: generate_purchase_order *)

PoFailed(sugs, ords, lns, outcome) ==
    [suggestions |-> sugs, orders |-> ords, lines |-> lns,
     outcome |-> outcome, ret |-> None]

\* lines 571-574 without the status change
action_suggestion_keep_status(row, po) ==
    save_row([row EXCEPT !.purchase_order = Some(po), !.actioned_date = Some(now)])

\* lines 571-574: the suggestion becomes PO_CREATED and is saved
action_suggestion(row, po) ==
    save_row([row EXCEPT !.status = "PO_CREATED",
                         !.purchase_order = Some(po),
                         !.actioned_date = Some(now)])

\* lines 555-578: the order, its line item, the suggestion
create_order(sugs, ords, lns, sid) ==
    [suggestions |-> [sugs EXCEPT ![sid] = action_suggestion(@, Len(ords) + 1)],
     orders |-> Append(ords, [supplier |-> Val(sugs[sid].suggested_supplier),
                              status |-> "PENDING",
                              reference |-> [date |-> now, suggestion |-> sid]]),
     lines |-> Append(lns, [order |-> Len(ords) + 1,
                            part |-> sugs[sid].rop_policy,
                            quantity |-> sugs[sid].suggested_order_qty,
                            received |-> 0,
                            reference |-> sid]),
     outcome |-> "created", ret |-> Some(Len(ords) + 1)]

\* line 546 without its test
not_pending_never(row) == FALSE

\* line 546: suggestion.status != 'PENDING'
not_pending(row) == row.status # "PENDING"

generate_purchase_order(sugs, ords, lns, sid) ==
    IF sid \notin 1..Len(sugs) THEN PoFailed(sugs, ords, lns, "not_found")
    ELSE IF not_pending(sugs[sid]) THEN PoFailed(sugs, ords, lns, "not_pending")
    ELSE IF IsNone(sugs[sid].suggested_supplier)
    THEN PoFailed(sugs, ords, lns, "no_supplier")
    ELSE create_order(sugs, ords, lns, sid)

\* lines 555-582 when PurchaseOrderLineItem.objects.create (at = "line") or
\* suggestion.save() (at = "save") raises: the rows created before stay, the
\* except clause of line 580 returns None
create_order_raising(sugs, ords, lns, sid, at) ==
    [suggestions |-> sugs,
     orders |-> create_order(sugs, ords, lns, sid).orders,
     lines |-> IF at = "line" THEN lns ELSE create_order(sugs, ords, lns, sid).lines,
     outcome |-> "raised", ret |-> None]

\* generate_purchase_order in a call where the host system raises at `at`
generate_purchase_order_raising(sugs, ords, lns, sid, at) ==
    IF generate_purchase_order(sugs, ords, lns, sid).outcome # "created"
    THEN generate_purchase_order(sugs, ords, lns, sid)
    ELSE create_order_raising(sugs, ords, lns, sid, at)

----------------------------------------------------------------------------
(* admin.py: ROPSuggestionAdmin actions; queryset.update() bypasses save() *)

set_status(sugs, selected, status) ==
    [i \in 1..Len(sugs) |->
        IF i \in selected THEN [sugs[i] EXCEPT !.status = status] ELSE sugs[i]]

----------------------------------------------------------------------------
(* api_views.py: ROPSuggestionsView.get *)

\* a filter that does not look at the status
filter_pending_any_status(sugs, min_urgency) ==
    {i \in 1..Len(sugs) : sugs[i].urgency_score >= min_urgency}

\* lines 52-55: filter(status='PENDING', urgency_score__gte=min_urgency),
\* the ids of the rows
filter_pending(sugs, min_urgency) ==
    {i \in 1..Len(sugs) :
        sugs[i].status = "PENDING" /\ sugs[i].urgency_score >= min_urgency}

\* ascending stockout_date; the database places the rows without a date
\* before or after the dated ones (nulls_first)
date_before(a, b, nulls_first) ==
    IF IsNone(a) /\ IsNone(b) THEN FALSE
    ELSE IF IsNone(a) THEN nulls_first
    ELSE IF IsNone(b) THEN ~nulls_first
    ELSE Val(a) < Val(b)

\* line 59: order_by('-urgency_score', 'stockout_date'), row a sorts
\* strictly before row b
sorts_before(a, b, nulls_first) ==
    \/ a.urgency_score > b.urgency_score
    \/ /\ a.urgency_score = b.urgency_score
       /\ date_before(a.stockout_date, b.stockout_date, nulls_first)

\* the orders in which the database may return the rows ids: rows that the
\* ordering does not separate come in any order
ordered(sugs, ids, nulls_first) ==
    {o \in [1..Cardinality(ids) -> ids] :
        /\ \A j, k \in 1..Cardinality(ids) : (j # k) => (o[j] # o[k])
        /\ \A j, k \in 1..Cardinality(ids) :
              (j < k) => ~sorts_before(sugs[o[k]], sugs[o[j]], nulls_first)}

\* line 59: [:max_results] of an ordered result; a negative bound raises in
\* the queryset and the view answers with the error of lines 88-93
sliced(order, max_results) ==
    IF max_results < 0 THEN [outcome |-> "raised", ids |-> << >>]
    ELSE [outcome |-> "returned",
          ids |-> SubSeq(order, 1, Min(max_results, Len(order)))]


(* the first part, each through get_or_create                              *)

\* lines 54-62: the defaults of the policy
TestPolicy ==
    [ DefaultPolicy EXCEPT
        !.safety_stock = 1000,
        !.last_calculated_rop = Some(1500),
        !.last_calculated_demand_rate = Some(25000),
        !.last_calculation_date = Some(now) ]

\* lines 80-89: the defaults of the suggestion, urgency_score aside
TestValues ==
    [ suggested_order_qty |-> RInt(20), current_stock |-> RInt(5),
      projected_stock |-> RInt(3), calculated_rop |-> RInt(15),
      stockout_date |-> Some(now + 3), days_until_stockout |-> Some(3),
      suggested_supplier |-> None, lead_time_days |-> Some(7) ]

\* line 85: 'urgency_score': Decimal('85.50')
TestScore == 8550

\* lines 103-112: the statistics row; timezone.now() is new at every call,
\* so the lookup on calculation_date finds nothing
TestStatistics(p) ==
    [ rop_policy |-> p, calculation_date |-> now, mean_daily_demand |-> 25000,
      std_dev_daily_demand |-> 7500, total_removals |-> 225,
      analysis_period_days |-> 90, calculated_safety_stock |-> Some(850) ]

\* lines 53-64: ROPPolicy.objects.get_or_create(part=part, defaults=...)
test_policy(db, p) ==
    IF IsNone(db.policies[p]) THEN [db EXCEPT !.policies[p] = Some(TestPolicy)] ELSE db

\* lines 77-112 once the lookup of the suggestion found `found`: the row is
\* built with the caller's urgency_score and inserted through save()
test_rows(db, p, found) ==
    IF Len(found) > 1 THEN [db |-> db, outcome |-> "raised", ret |-> None]
    ELSE IF Len(found) = 1
    THEN [db |-> [db EXCEPT !.stats = Append(@, TestStatistics(p))],
          outcome |-> "found", ret |-> Some(found[1])]
    ELSE [db |-> [db EXCEPT
                    !.suggestions = Append(@, save_new(
                        [NewSuggestion(p) EXCEPT !.urgency_score = TestScore],
                        TestValues)),
                    !.stats = Append(@, TestStatistics(p))],
          outcome |-> "created", ret |-> Some(Len(db.suggestions) + 1)]

\* lines 41-112 with Part.objects.first() = p
test_data_for(db, p) ==
    test_rows(test_policy(db, p), p, lookup_pending(db.suggestions, p))

create_test_data(db) == test_data_for(db, 1)

----------------------------------------------------------------------------
(* The state machine *)

Threads == {1, 2}

IdleRun ==
    [pc |-> "idle", part |-> 0, prep |-> PrepEnd(<< >>, "none", FALSE),
     values |-> NoValues]

NoUrg == [d1 |-> None, d2 |-> None, projected_stock |-> RInt(0),
          calculated_rop |-> RInt(0), lead_time |-> None,
          s1 |-> 0, s2 |-> 0, done |-> FALSE]

Did(op, arg, outcome, ret, cmp, results) ==
    [op |-> op, arg |-> arg, outcome |-> outcome, ret |-> ret,
     cmp |-> cmp, results |-> results]

InitStore ==
    /\ now = 100
    /\ stock = [p \in Parts |-> 500]
    /\ removals \in [Parts -> UNION {RemovalHistories(p) : p \in Parts}]
    /\ \A p \in Parts : removals[p] \in RemovalHistories(p)
    /\ allocated = [p \in Parts |-> 0]
    /\ stats = << >>
    /\ suggestions = << >>
    /\ orders = << >>
    /\ lines = << >>
    /\ last = Did("init", 0, "none", None, "none", NoResults)

\* part 1 has a policy with one of the configurations cfgs, part 2 has none
InitPolicies(cfgs) ==
    \E cfg \in cfgs :
        policies = [p \in Parts |->
            IF p = 1
            THEN Some([DefaultPolicy EXCEPT
                        !.enabled = cfg.enabled,
                        !.safety_stock = cfg.safety_stock,
                        !.use_calculated_safety_stock = cfg.use_calculated_safety_stock,
                        !.service_level = cfg.service_level,
                        !.custom_lookback_days = cfg.custom_lookback_days,
                        !.target_stock_multiplier = cfg.target_stock_multiplier])
            ELSE None]

\* no forecasting plugin, part 1's safety stock manual
Init ==
    /\ InitStore
    /\ forecast = None
    /\ InitPolicies({ManualConfig})
    /\ run = [t \in Threads |-> IdleRun]
    /\ urg = NoUrg

\* with or without a forecast, part 1's safety stock manual or calculated
InitEither ==
    /\ InitStore
    /\ forecast \in ForecastChoices
    /\ InitPolicies({ManualConfig, CalculatedConfig})
    /\ run = [t \in Threads |-> IdleRun]
    /\ urg = NoUrg

Db == [policies |-> policies, stats |-> stats, suggestions |-> suggestions]

WithinBounds(db) == Len(db.stats) <= MaxStats

CalcStep(p, r) ==
    /\ WithinBounds(r.db)
    /\ policies' = r.db.policies
    /\ stats' = r.db.stats
    /\ suggestions' = r.db.suggestions
    /\ last' = Did("calc", p, r.outcome, r.ret, r.cmp, NoResults)
    /\ UNCHANGED <<envVars, orders, lines, run, urg>>

\* API: CalculatePartROPView.post -> engine.calculate_part_rop(pk)
CalculatePartRop(p) == CalcStep(p, calculate_part_rop(Db, p))

BatchStep(r) ==
    /\ WithinBounds(r.db)
    /\ policies' = r.db.policies
    /\ stats' = r.db.stats
    /\ suggestions' = r.db.suggestions
    /\ last' = Did("batch", 0, "returned", None, "none", r.results)
    /\ UNCHANGED <<envVars, orders, lines, run, urg>>

\* the batch driver: engine.calculate_all_suggestions()
CalculateAll == BatchStep(calculate_all_suggestions(Db))

PoStep(sid, r) ==
    /\ Len(r.orders) <= MaxOrders
    /\ suggestions' = r.suggestions
    /\ orders' = r.orders
    /\ lines' = r.lines
    /\ last' = Did("po", sid, r.outcome, r.ret, "none", NoResults)
    /\ UNCHANGED <<envVars, policies, stats, run, urg>>

\* API: GeneratePOFromSuggestionView.post -> engine.generate_purchase_order(id)
GeneratePurchaseOrder(sid) ==
    PoStep(sid, generate_purchase_order(suggestions, orders, lines, sid))

\* admin.py: mark_as_dismissed on the selected rows
MarkAsDismissed(selected) ==
    /\ suggestions' = set_status(suggestions, selected, "DISMISSED")
    /\ last' = Did("dismiss", 0, "updated", None, "none", NoResults)
    /\ UNCHANGED <<envVars, policies, stats, orders, lines, run, urg>>

\* admin.py: mark_as_pending on the selected rows
MarkAsPending(selected) ==
    /\ suggestions' = set_status(suggestions, selected, "PENDING")
    /\ last' = Did("pending", 0, "updated", None, "none", NoResults)
    /\ UNCHANGED <<envVars, policies, stats, orders, lines, run, urg>>

(* The host system changing under the engine *)

Changed == Did("env", 0, "none", None, "none", NoResults)

SetStock(p, v) ==
    /\ v # stock[p]
    /\ stock' = [stock EXCEPT ![p] = v]
    /\ last' = Changed
    /\ UNCHANGED <<now, removals, allocated, forecast, policies, stats,
                   suggestions, orders, lines, run, urg>>

SetRemovals(p, h) ==
    /\ h # removals[p]
    /\ removals' = [removals EXCEPT ![p] = h]
    /\ last' = Changed
    /\ UNCHANGED <<now, stock, allocated, forecast, policies, stats,
                   suggestions, orders, lines, run, urg>>

\* the policy with the configuration fields of cfg
configured(policy, cfg) ==
    [policy EXCEPT
        !.enabled = cfg.enabled,
        !.safety_stock = cfg.safety_stock,
        !.use_calculated_safety_stock = cfg.use_calculated_safety_stock,
        !.service_level = cfg.service_level,
        !.custom_lookback_days = cfg.custom_lookback_days,
        !.target_stock_multiplier = cfg.target_stock_multiplier]

\* a configuration edit of an existing policy
EditPolicy(p, cfg) ==
    /\ ~IsNone(policies[p])
    /\ configured(Val(policies[p]), cfg) # Val(policies[p])
    /\ policies' = [policies EXCEPT ![p] = Some(configured(Val(policies[p]), cfg))]
    /\ last' = Changed
    /\ UNCHANGED <<envVars, stats, suggestions, orders, lines, run, urg>>

\* the buyer issues a draft purchase order to its supplier
PlaceOrder(o) ==
    /\ o \in 1..Len(orders)
    /\ orders[o].status = "PENDING"
    /\ orders' = [orders EXCEPT ![o].status = "PLACED"]
    /\ last' = Changed
    /\ UNCHANGED <<envVars, policies, stats, suggestions, lines, run, urg>>

Environment ==
    \/ \E p \in Parts : \E v \in StockLevels(p) : SetStock(p, v)
    \/ \E p \in Parts : \E h \in RemovalHistories(p) : SetRemovals(p, h)
    \/ \E p \in Parts : \E cfg \in PolicyConfigs(p) : EditPolicy(p, cfg)
    \/ \E o \in 1..MaxOrders : PlaceOrder(o)

\* the two calculation entry points
Calculations ==
    \/ \E p \in PartIds : CalculatePartRop(p)
    \/ CalculateAll

Engine ==
    \/ Calculations
    \/ \E sid \in 1..(Len(suggestions) + 1) : GeneratePurchaseOrder(sid)

Next == Engine \/ Environment

\* the engine's operations, one at a time, over a changing host system
Spec == Init /\ [][Next]_vars

\* the admin actions on a selection of suggestion rows
Admin ==
    \E selected \in (SUBSET (1..Len(suggestions))) \ {{}} :
        \/ MarkAsDismissed(selected)
        \/ MarkAsPending(selected)

\* the calculations and the admin actions, one at a time
SpecAdmin == InitEither /\ [][Calculations \/ Admin]_vars

TestDataStep(r) ==
    /\ WithinBounds(r.db)
    /\ policies' = r.db.policies
    /\ stats' = r.db.stats
    /\ suggestions' = r.db.suggestions
    /\ last' = Did("testdata", 1, r.outcome, r.ret, "none", NoResults)
    /\ UNCHANGED <<envVars, orders, lines, run, urg>>

\* the script create_test_data.py run on the server
CreateTestData == TestDataStep(create_test_data(Db))

\* stock counts of part 1 below its reorder point
LowStockLevels == {500, 1000}

\* a forecasting plugin is installed
InitForecast ==
    /\ InitStore
    /\ forecast \in ForecastChoices \ {None}
    /\ InitPolicies({ManualConfig})
    /\ run = [t \in Threads |-> IdleRun]
    /\ urg = NoUrg

\* the operations that save suggestions, with the stock of part 1 moving
\* below its reorder point
Saves ==
    \/ Engine
    \/ CreateTestData
    \/ \E v \in LowStockLevels : SetStock(1, v)

SpecSave == InitForecast /\ [][Saves]_vars

\* the dates of the six tracking rows of part 1: the first day of the
\* 90-day window, the first day of the 45-day window, four later days
DemandDates == << 10, 55, 60, 70, 80, 90 >>

\* the quantity of a tracking row
DemandQuantities == {-45, 0, 40}

DemandHistories ==
    { [i \in 1..Len(DemandDates) |-> Removal(q[i], DemandDates[i])] :
        q \in [1..Len(DemandDates) -> DemandQuantities] }

\* manual safety stock, the window the global one or 45 days, the service
\* level 95 or 90
DemandConfigs ==
    { [ManualConfig EXCEPT !.custom_lookback_days = w, !.service_level = sl] :
        w \in {None, Some(45)}, sl \in {95, 90} }

\* one part with any of the histories, the other without tracking rows
InitDemand ==
    /\ now = 100
    /\ stock = [p \in Parts |-> 500]
    /\ \E h \in DemandHistories, tracked \in Parts :
          removals = [p \in Parts |-> IF p = tracked THEN h ELSE << >>]
    /\ allocated = [p \in Parts |-> 0]
    /\ forecast = None
    /\ stats = << >>
    /\ suggestions = << >>
    /\ orders = << >>
    /\ lines = << >>
    /\ last = Did("init", 0, "none", None, "none", NoResults)
    /\ InitPolicies(DemandConfigs)
    /\ run = [t \in Threads |-> IdleRun]
    /\ urg = NoUrg

\* calculate_part_rop over the histories
SpecDemand == InitDemand /\ [][\E p \in Parts : CalculatePartRop(p)]_vars

\* service levels in tenths of a percent: every half percent from 45 to
\* 100, and 99.9
ServiceLevels == {t \in 450..1000 : t % 5 = 0} \cup {999}

\* stock counts, in hundredths, and cached demand rates, in ten-thousandths,
\* for the linear estimate
EstimateStocks == {0, 500, 2750, 2799, 10000, 300000}

EstimateRates == {None, Some(0), Some(-25000), Some(25000), Some(3333), Some(10)}

EstimateRops == {RInt(0), Rat(55, 2), RInt(90)}

\* part 1 with any of the stock counts and cached demand rates
InitLookups ==
    /\ now = 100
    /\ \E v \in EstimateStocks : stock = [p \in Parts |-> IF p = 1 THEN v ELSE 500]
    /\ removals = [p \in Parts |-> << >>]
    /\ allocated = [p \in Parts |-> 0]
    /\ forecast = None
    /\ \E rate \in EstimateRates :
          policies = [p \in Parts |->
              IF p = 1
              THEN Some([configured(DefaultPolicy, ManualConfig) EXCEPT
                            !.last_calculated_demand_rate = rate])
              ELSE None]
    /\ stats = << >>
    /\ suggestions = << >>
    /\ orders = << >>
    /\ lines = << >>
    /\ last = Did("init", 0, "none", None, "none", NoResults)
    /\ run = [t \in Threads |-> IdleRun]
    /\ urg = NoUrg

\* engine.service_level_to_z_score(level)
ZScoreLookup(level) ==
    /\ last' = Did("z_score", level, "returned",
                   Some(service_level_to_z_score(level)), "none", NoResults)
    /\ UNCHANGED <<envVars, policies, stats, suggestions, orders, lines, run, urg>>

\* engine.estimate_stockout_simple(part, rop) for a part that has a policy
EstimateStockout(p, rop) ==
    /\ ~IsNone(policies[p])
    /\ last' = Did("estimate", [part |-> p, rop |-> rop], "returned",
                   estimate_stockout_simple(policies, p, rop), "none", NoResults)
    /\ UNCHANGED <<envVars, policies, stats, suggestions, orders, lines, run, urg>>

Lookups ==
    \/ \E level \in ServiceLevels : ZScoreLookup(level)
    \/ \E p \in Parts : \E rop \in EstimateRops : EstimateStockout(p, rop)

\* the two lookups applied to their inputs
SpecLookups == InitLookups /\ [][Lookups]_vars

\* the engine's operations over suggestions that the buyer orders or an
\* administrator dismisses, with the stock of part 1 at or below its rop
Closings ==
    \/ Engine
    \/ \E selected \in (SUBSET (1..Len(suggestions))) \ {{}} : MarkAsDismissed(selected)
    \/ \E v \in StockLevels(1) : SetStock(1, v)

SpecClosed == Init /\ [][Closings]_vars

\* part 1 with a policy, four or five removals and a stock that stays as
\* it is
InitReorder ==
    /\ now = 100
    /\ \E v \in {0, 500, 1000, 2000, 2750} :
          stock = [p \in Parts |-> IF p = 1 THEN v ELSE 500]
    /\ \E h \in RemovalHistories(1) :
          removals = [p \in Parts |-> IF p = 1 THEN h ELSE << >>]
    /\ \E a \in {0, 300} : allocated = [p \in Parts |-> IF p = 1 THEN a ELSE 0]
    /\ forecast = None
    /\ InitPolicies({ManualConfig, CalculatedConfig})
    /\ stats = << >>
    /\ suggestions = << >>
    /\ orders = << >>
    /\ lines = << >>
    /\ last = Did("init", 0, "none", None, "none", NoResults)
    /\ run = [t \in Threads |-> IdleRun]
    /\ urg = NoUrg

\* calculations and purchase orders for part 1 with nothing else changing
Reorders ==
    \/ CalculatePartRop(1)
    \/ \E sid \in 1..(Len(suggestions) + 1) : GeneratePurchaseOrder(sid)

SpecReorder == InitReorder /\ [][Reorders]_vars

\* generate_purchase_order(id) while the line item or the save raises
GeneratePurchaseOrderRaising(sid, at) ==
    PoStep(sid, generate_purchase_order_raising(suggestions, orders, lines, sid, at))

\* calculations and purchase orders for part 1, the host system failing in
\* some of the calls
RaisingReorders ==
    \/ Reorders
    \/ \E sid \in 1..(Len(suggestions) + 1) : \E at \in {"line", "save"} :
          GeneratePurchaseOrderRaising(sid, at)

SpecPoRaising == InitReorder /\ [][RaisingReorders]_vars

\* forecast points: with both keys, without 'projected_stock', without 'date'
Point(date, projected_stock) == [date |-> date, projected_stock |-> projected_stock]

PointWithoutStock(date) == [date |-> date]

PointWithoutDate(projected_stock) == [projected_stock |-> projected_stock]

\* the plugin is absent, raises, or returns a series: empty; not in date
\* order; with a point at 27.50 and none below; starting in the past; with
\* a point that lacks a key before or after the first point below rop
PredictionProviders ==
    { None,
      Some(RaisingProvider("lookup")),
      Some(RaisingProvider("fetch")),
      Some(Provider(<< >>)),
      Some(Provider(<< Point(105, 5000), Point(103, 2000), Point(110, 0) >>)),
      Some(Provider(<< Point(101, 5000), Point(102, 2750) >>)),
      Some(Provider(<< Point(98, 0), Point(103, 0) >>)),
      Some(Provider(<< PointWithoutStock(101), Point(103, 0) >>)),
      Some(Provider(<< Point(103, 0), PointWithoutStock(104) >>)),
      Some(Provider(<< Point(101, 9500), PointWithoutDate(0) >>)) }

PredictionRops == {Rat(55, 2), RInt(90)}

\* part 1 with five removals, a policy and 5.00 or 100.00 in stock
InitPrediction ==
    /\ now = 100
    /\ \E v \in {500, 10000} : stock = [p \in Parts |-> IF p = 1 THEN v ELSE 500]
    /\ removals = [p \in Parts |->
          IF p = 1
          THEN << Removal(54, 60), Removal(36, 65), Removal(48, 70), Removal(42, 80),
                  Removal(45, 95) >>
          ELSE << >>]
    /\ allocated = [p \in Parts |-> 0]
    /\ forecast \in PredictionProviders
    /\ \E rate \in {None, Some(25000), Some(100000)} :
          policies = [p \in Parts |->
              IF p = 1
              THEN Some([configured(DefaultPolicy, ManualConfig) EXCEPT
                            !.last_calculated_demand_rate = rate])
              ELSE None]
    /\ stats = << >>
    /\ suggestions = << >>
    /\ orders = << >>
    /\ lines = << >>
    /\ last = Did("init", 0, "none", None, "none", NoResults)
    /\ run = [t \in Threads |-> IdleRun]
    /\ urg = NoUrg

\* engine.get_stockout_prediction(part, rop) for a part that has a policy
StockoutPrediction(p, rop) ==
    /\ ~IsNone(policies[p])
    /\ last' = Did("prediction", [part |-> p, rop |-> rop], "returned",
                   get_stockout_prediction(policies, p, rop), "none", NoResults)
    /\ UNCHANGED <<envVars, policies, stats, suggestions, orders, lines, run, urg>>

Predictions ==
    \/ \E p \in Parts : \E rop \in PredictionRops : StockoutPrediction(p, rop)
    \/ CalculatePartRop(1)

\* the stockout prediction, called directly and by calculate_part_rop
SpecPrediction == InitPrediction /\ [][Predictions]_vars

\* the supplier part of supplier c: its lead time unknown, 0 or 5 days, the
\* company flagged as supplier or not, active or not
SupplierOptions(c) ==
    {[supplier |-> c, lead_time |-> lt, is_supplier |-> sup, is_active |-> act] :
        lt \in {None, Some(0), Some(5)}, sup \in BOOLEAN, act \in BOOLEAN}

\* up to three supplier parts of a part, of suppliers 1, 2, 3 in query order
SupplierLists ==
    {<< >>}
    \cup {<< a >> : a \in SupplierOptions(1)}
    \cup {<< a, b >> : a \in SupplierOptions(1), b \in SupplierOptions(2)}
    \cup {<< a, b, c >> : a \in SupplierOptions(1), b \in SupplierOptions(2),
                           c \in SupplierOptions(3)}

InitSupplier ==
    /\ now = 100
    /\ stock = [p \in Parts |-> 500]
    /\ removals = [p \in Parts |-> << >>]
    /\ allocated = [p \in Parts |-> 0]
    /\ forecast = None
    /\ policies = [p \in Parts |-> None]
    /\ stats = << >>
    /\ suggestions = << >>
    /\ orders = << >>
    /\ lines = << >>
    /\ last = Did("init", << >>, "none", None, "none", NoResults)
    /\ run = [t \in Threads |-> IdleRun]
    /\ urg = NoUrg

\* engine.get_preferred_supplier(part) for a part with the supplier parts sps
PreferredSupplier(sps) ==
    /\ last' = Did("supplier", sps, "returned", preferred_among(sps), "none", NoResults)
    /\ UNCHANGED <<envVars, policies, stats, suggestions, orders, lines, run, urg>>

\* the supplier selection over the supplier parts a part can have
SpecSupplier == InitSupplier /\ [][\E sps \in SupplierLists : PreferredSupplier(sps)]_vars

\* the states of a purchase order in the host system
OrderStatuses == {"PENDING", "PLACED", "COMPLETE", "CANCELLED"}

\* a purchase order of the host system and a line of it for part 1
HostOrder(status) ==
    [supplier |-> 1, status |-> status, reference |-> [date |-> 90, suggestion |-> 0]]

HostLine(o, quantity, received) ==
    [order |-> o, part |-> 1, quantity |-> quantity, received |-> received,
     reference |-> 0]

\* two purchase orders in any state, the first with a line of 10.00 of which
\* nothing, a part, all or more has been received, the second with a line
\* of 20.00 not or fully received
InitInbound ==
    /\ now = 100
    /\ \E v \in {500, 2750} : stock = [p \in Parts |-> IF p = 1 THEN v ELSE 500]
    /\ removals = [p \in Parts |-> << >>]
    /\ \E a \in {0, 300} : allocated = [p \in Parts |-> IF p = 1 THEN a ELSE 0]
    /\ forecast = None
    /\ policies = [p \in Parts |-> None]
    /\ stats = << >>
    /\ suggestions = << >>
    /\ \E s1 \in OrderStatuses, s2 \in OrderStatuses :
          orders = << HostOrder(s1), HostOrder(s2) >>
    /\ \E r1 \in {0, 400, 1000, 1200}, r2 \in {0, 2000} :
          lines = << HostLine(1, 1000, r1), HostLine(2, 2000, r2) >>
    /\ last = Did("init", 0, "none", None, "none", NoResults)
    /\ run = [t \in Threads |-> IdleRun]
    /\ urg = NoUrg

\* engine.calculate_projected_stock(part) and the inbound quantity it used
ProjectedStock(p) ==
    /\ last' = Did("projected", p, "returned",
                   [inbound |-> get_inbound_po_quantity(p),
                    projected |-> calculate_projected_stock(p)], "none", NoResults)
    /\ UNCHANGED <<envVars, policies, stats, suggestions, orders, lines, run, urg>>

\* the projected stock over the purchase orders of the host system
SpecInbound == InitInbound /\ [][\E p \in Parts : ProjectedStock(p)]_vars

\* the urgency scores, in hundredths, and stockout dates of the listed rows
ListScores == {5000, 10000}

ListDates == {None, Some(103), Some(110)}

ListStatuses == {"PENDING", "DISMISSED"}

\* the query parameters limit and min_urgency (in hundredths)
ListLimits == {-1, 0, 1, 2, 5}

ListMinUrgencies == {0, 5000, 7500}

\* a suggestion row of part p as the listing reads it
ListedRow(p, status, score, date) ==
    [NewSuggestion(p) EXCEPT
        !.status = status, !.urgency_score = score, !.stockout_date = date,
        !.days_until_stockout = IF IsNone(date) THEN None ELSE Some(Val(date) - 100)]

ListedRows(p) ==
    {ListedRow(p, status, score, date) :
        status \in ListStatuses, score \in ListScores, date \in ListDates}

\* three suggestion rows, two of part 1 and one of part 2
InitList ==
    /\ now = 100
    /\ stock = [p \in Parts |-> 500]
    /\ removals = [p \in Parts |-> << >>]
    /\ allocated = [p \in Parts |-> 0]
    /\ forecast = None
    /\ policies = [p \in Parts |-> Some(DefaultPolicy)]
    /\ stats = << >>
    /\ \E a \in ListedRows(1), b \in ListedRows(2), c \in ListedRows(1) :
          suggestions = << a, b, c >>
    /\ orders = << >>
    /\ lines = << >>
    /\ last = Did("init", 0, "none", None, "none", NoResults)
    /\ run = [t \in Threads |-> IdleRun]
    /\ urg = NoUrg

\* API: GET suggestions/?limit=..&min_urgency=..
ListSuggestions(limit, min_urgency) ==
    \E nulls_first \in BOOLEAN :
      \E order \in ordered(suggestions, filter_pending(suggestions, min_urgency),
                           nulls_first) :
        /\ last' = Did("list", [limit |-> limit, min_urgency |-> min_urgency],
                       sliced(order, limit).outcome, sliced(order, limit).ids,
                       "none", NoResults)
        /\ UNCHANGED <<envVars, policies, stats, suggestions, orders, lines, run, urg>>

\* the listing over the tables
SpecList ==
    InitList /\ [][\E limit \in ListLimits, min_urgency \in ListMinUrgencies :
                      ListSuggestions(limit, min_urgency)]_vars

----------------------------------------------------------------------------
(* calculate_part_rop run by concurrent requests: each invocation is a     *)
(* sequence of store accesses, and another invocation's accesses can fall  *)
(* between any two of them.  Nothing in the code holds a lock across the   *)
(* call and ROPSuggestion has no unique constraint on (rop_policy, status).*)
(* update_or_create locks the row it found until it has saved it, so its   *)
(* lookup and update are one step; its lookup and insert are two.          *)

Running(pc, p, prep, values) ==
    [pc |-> pc, part |-> p, prep |-> [prep EXCEPT !.db = << >>], values |-> values]

\* invocation t returns
CReturn(t, p, r) ==
    /\ policies' = r.db.policies
    /\ stats' = r.db.stats
    /\ suggestions' = r.db.suggestions
    /\ last' = Did("calc", p, r.outcome, r.ret, r.cmp, NoResults)
    /\ run' = [run EXCEPT ![t] = IdleRun]
    /\ UNCHANGED <<envVars, orders, lines, urg>>

CPrepared(t, p, prep) ==
    /\ WithinBounds(prep.db)
    /\ IF prep.outcome # "ok"
       THEN CReturn(t, p, Returned(prep.db, prep.outcome, None, "none"))
       ELSE /\ policies' = prep.db.policies
            /\ stats' = prep.db.stats
            /\ run' = [run EXCEPT ![t] = Running("decide", p, prep, NoValues)]
            /\ UNCHANGED <<envVars, suggestions, orders, lines, last, urg>>

\* lines 89-137: up to the new DemandStatistics row
CBegin(t, p) ==
    /\ run[t].pc = "idle"
    /\ CPrepared(t, p, Prepare(Db, p))

CDecided(t, p, dec) ==
    IF dec.outcome # "upsert"
    THEN CReturn(t, p, Returned(dec.db, dec.outcome, None, dec.cmp))
    ELSE /\ run' = [run EXCEPT ![t] = Running("upsert", p, run[t].prep, dec.values)]
         /\ UNCHANGED <<storeVars, urg>>

\* lines 139-160: projected stock, the expiry or the values of the suggestion
CDecide(t) ==
    /\ run[t].pc = "decide"
    /\ CDecided(t, run[t].part, Decide(Db, run[t].part, run[t].prep))

CFound(t, p, found) ==
    IF found = << >>
    THEN /\ run' = [run EXCEPT ![t].pc = "insert"]
         /\ UNCHANGED <<storeVars, urg>>
    ELSE CReturn(t, p, AfterWrite(Db, write_suggestion(suggestions, p, found,
                                                      run[t].values), "below"))

\* line 163: the lookup of update_or_create, and its update of the row found
CLookup(t) ==
    /\ run[t].pc = "upsert"
    /\ CFound(t, run[t].part, lookup_pending(suggestions, run[t].part))

\* line 163: the insert of update_or_create after a lookup that found nothing
CInsert(t) ==
    /\ run[t].pc = "insert"
    /\ CReturn(t, run[t].part,
               AfterWrite(Db, write_suggestion(suggestions, run[t].part, << >>,
                                               run[t].values), "below"))

Concurrent ==
    \E t \in Threads :
        \/ \E p \in Parts : CBegin(t, p)
        \/ CDecide(t)
        \/ CLookup(t)
        \/ CInsert(t)

\* concurrent invocations of calculate_part_rop, their store accesses
\* interleaved
SpecConc == InitEither /\ [][Concurrent]_vars

----------------------------------------------------------------------------
(* models.py: calculate_urgency_score on two suggestions that differ in    *)
(* days_until_stockout alone                                               *)

DayCounts == {-3, -1, 0, 1, 7, 8, 14, 15, 30, 31, 45, 240}

DayChoices == {None} \cup {Some(d) : d \in DayCounts}

StockChoices == {RInt(-5), RInt(0), RInt(5), RInt(10), RInt(20)}

RopChoices == {RInt(0), RInt(10)}

LeadTimeChoices == {None, Some(0), Some(6), Some(10)}

InitUrgency ==
    /\ InitStore
    /\ InitPolicies({ManualConfig})
    /\ forecast = None
    /\ \A p \in Parts : \A h \in RemovalHistories(p) : Len(removals[p]) <= Len(h)
    /\ run = [t \in Threads |-> IdleRun]
    /\ \E a \in DayChoices, b \in DayChoices, ps \in StockChoices,
          rop \in RopChoices, lt \in LeadTimeChoices :
            urg = [NoUrg EXCEPT !.d1 = a, !.d2 = b, !.projected_stock = ps,
                                !.calculated_rop = rop, !.lead_time = lt]

\* both suggestions compute their score
ScoreBoth ==
    /\ ~urg.done
    /\ urg' = [urg EXCEPT
                 !.s1 = calculate_urgency_score(urg.d1, urg.projected_stock,
                                                urg.calculated_rop, urg.lead_time),
                 !.s2 = calculate_urgency_score(urg.d2, urg.projected_stock,
                                                urg.calculated_rop, urg.lead_time),
                 !.done = TRUE]
    /\ UNCHANGED <<envVars, storeVars, last, run>>

SpecUrgency == InitUrgency /\ [][ScoreBoth]_vars

\* C10: for integer day counts d1 <= d2 and the same projected_stock,
\* calculated_rop and lead_time_days, the score for d1 is at least the score
\* for d2
UrgencyMonotoneInDays ==
    (urg.done /\ ~IsNone(urg.d1) /\ ~IsNone(urg.d2) /\ Val(urg.d1) <= Val(urg.d2))
        => urg.s1 >= urg.s2

\* C11: for every days_until_stockout (known or unknown), projected_stock,
\* calculated_rop and lead_time_days the score lies in [0, 100]
UrgencyWithinRange ==
    urg.done => (0 <= urg.s1 /\ urg.s1 <= 10000)

\* C12: with days_until_stockout unknown the score is exactly 100, whatever
\* projected_stock, calculated_rop and lead_time_days are
UnknownDaysScoreHundred ==
    (urg.done /\ IsNone(urg.d1)) => urg.s1 = 10000

\* an unknown day count scored beside a small shortage and a known lead time
UnknownDaysScored ==
    /\ urg.done
    /\ IsNone(urg.d1)
    /\ urg.projected_stock = RInt(5)
    /\ urg.calculated_rop = RInt(10)
    /\ urg.lead_time = Some(6)
    /\ urg.s1 = 10000

\* the lead-time points for a known day count: 20 when the lead time is
\* known and days < lead_time, 15 when days < 1.5 * lead_time, otherwise 10
lead_points(days, lead_time) ==
    IF ~IsNone(lead_time) /\ days < Val(lead_time) THEN RInt(20)
    ELSE IF ~IsNone(lead_time) /\ 2 * days < 3 * Val(lead_time) THEN RInt(15)
    ELSE RInt(10)

\* min(100, time + severity + lead) rounded to 2 places, in hundredths
sum_of_points(days, projected_stock, calculated_rop, lead_time) ==
    Quantize2(RMin(RInt(100),
        RAdd(RAdd(time_score(days), severity_score(projected_stock, calculated_rop)),
             lead_points(days, lead_time))))

\* C22: for every known integer days_until_stockout, 0 and negative values
\* included, the score equals min(100, time + severity + lead) rounded to 2
\* places, with time 50 for days <= 0, and lead 20 / 15 / 10 by the lead time
KnownDaysScoreIsSumOfPoints ==
    (urg.done /\ ~IsNone(urg.d1)) =>
        urg.s1 = sum_of_points(Val(urg.d1), urg.projected_stock,
                               urg.calculated_rop, urg.lead_time)

\* the same for day counts other than 0 and lead times other than 0
NonZeroDaysScoreIsSumOfPoints ==
    (urg.done /\ ~IsNone(urg.d1) /\ Val(urg.d1) # 0 /\ urg.lead_time # Some(0)) =>
        urg.s1 = sum_of_points(Val(urg.d1), urg.projected_stock,
                               urg.calculated_rop, urg.lead_time)

----------------------------------------------------------------------------
(* Properties of the engine's operations run one at a time (Spec) *)

\* the ids of the PENDING suggestions of policy p
PendingOf(sugs, p) ==
    {i \in 1..Len(sugs) : sugs[i].rop_policy = p /\ sugs[i].status = "PENDING"}

\* the step is a call of calculate_part_rop(p)
IsCalc(p) == last'.op = "calc" /\ last'.arg = p

\* the step is a call of generate_purchase_order(sid)
IsPo(sid) == last'.op = "po" /\ last'.arg = sid

\* C1: after any sequence of calculate_part_rop, calculate_all_suggestions
\* and generate_purchase_order calls, one at a time, every policy has at most
\* one PENDING suggestion
AtMostOnePending ==
    \A p \in Parts : Cardinality(PendingOf(suggestions, p)) <= 1

\* a run has updated the PENDING row of a policy that also has an older,
\* ordered suggestion
UpdatedBesideOrdered ==
    /\ last.op = "calc" /\ last.outcome = "updated"
    /\ \E i \in 1..Len(suggestions) :
          /\ suggestions[i].rop_policy = last.arg
          /\ suggestions[i].status = "PO_CREATED"
          /\ PendingOf(suggestions, last.arg) = {Val(last.ret)}
          /\ i < Val(last.ret)

\* rop_engine.py lines 96-108 read from the state before the call: the part
\* exists, its policy (built if it has none) is enabled, and the lookback
\* window holds at least min_samples removal events
policy_for(p) == IF IsNone(policies[p]) THEN DefaultPolicy ELSE Val(policies[p])

samples(p) == Len(removal_list(p, get_effective_lookback_days(policy_for(p))))

StatisticsSucceed(p) ==
    /\ p \in Parts
    /\ policy_for(p).enabled
    /\ samples(p) >= MIN_DEMAND_SAMPLES

\* C4: a calculate_part_rop call that finds projected_stock >= rop (equality
\* included) creates and overwrites no suggestion, leaves every PENDING
\* suggestion of the policy EXPIRED, and returns no suggestion
SufficientStockExpires ==
    [][ \A p \in Parts :
          (IsCalc(p) /\ last'.cmp \in {"equal", "above"}) =>
             /\ IsNone(last'.ret)
             /\ Len(suggestions') = Len(suggestions)
             /\ \A i \in 1..Len(suggestions) :
                   suggestions'[i] =
                     IF i \in PendingOf(suggestions, p)
                     THEN [suggestions[i] EXCEPT !.status = "EXPIRED"]
                     ELSE suggestions[i]
             /\ PendingOf(suggestions', p) = {} ]_vars

\* the second statistics run of the store found projected_stock = rop and
\* the suggestion of the first run is EXPIRED
ExpiredAtRop ==
    /\ last.op = "calc" /\ last.cmp = "equal" /\ last.outcome = "sufficient"
    /\ Len(stats) = 2
    /\ \E i \in 1..Len(suggestions) :
          suggestions[i].rop_policy = last.arg /\ suggestions[i].status = "EXPIRED"

\* C5: a calculate_part_rop call for a part whose policy exists and is
\* enabled, with fewer than min_samples qualifying removal events, returns no
\* suggestion and changes no policy, no DemandStatistics row and no
\* suggestion
InsufficientDataMutatesNothing ==
    [][ \A p \in Parts :
          ( /\ IsCalc(p)
            /\ ~IsNone(policies[p]) /\ Val(policies[p]).enabled
            /\ samples(p) < MIN_DEMAND_SAMPLES ) =>
             /\ IsNone(last'.ret)
             /\ policies' = policies
             /\ stats' = stats
             /\ suggestions' = suggestions
             /\ orders' = orders /\ lines' = lines ]_vars

\* a run with too few samples has returned and the PENDING suggestion of its
\* policy is still there
InsufficientBesidePending ==
    /\ last.op = "calc" /\ last.outcome = "insufficient"
    /\ last.arg \in Parts
    /\ samples(last.arg) < MIN_DEMAND_SAMPLES
    /\ PendingOf(suggestions, last.arg) # {}
    /\ ~IsNone(Val(policies[last.arg]).last_calculated_rop)

\* C6: a calculate_part_rop call whose statistics step succeeds sets the
\* policy's cached rop, demand rate and calculation date and appends exactly
\* one DemandStatistics row for the policy, whether or not a reorder is
\* needed; no step changes or removes an earlier DemandStatistics row
StatisticsAppendOnly ==
    [][ /\ Len(stats') >= Len(stats)
        /\ SubSeq(stats', 1, Len(stats)) = stats
        /\ \A p \in Parts :
             (IsCalc(p) /\ StatisticsSucceed(p)) =>
                /\ Len(stats') = Len(stats) + 1
                /\ stats'[Len(stats')].rop_policy = p
                /\ ~IsNone(policies'[p])
                /\ ~IsNone(Val(policies'[p]).last_calculated_rop)
                /\ Val(policies'[p]).last_calculated_demand_rate =
                      Some(stats'[Len(stats')].mean_daily_demand)
                /\ Val(policies'[p]).last_calculation_date = Some(now) ]_vars

\* a run that found the stock sufficient has added the second row of its
\* policy's history
SecondRowWithoutReorder ==
    /\ last.op = "calc" /\ last.outcome = "sufficient"
    /\ Len(stats) = 2
    /\ stats[1].rop_policy = last.arg /\ stats[2].rop_policy = last.arg
    /\ Val(policies[last.arg]).last_calculation_date = Some(now)

\* the orders created for suggestion sid
OrdersFor(ords, sid) ==
    {o \in 1..Len(ords) : ords[o].reference.suggestion = sid}

\* C8: generate_purchase_order on a PENDING suggestion with a suggested
\* supplier creates exactly one purchase order for that supplier with exactly
\* one line item for the policy's part and the suggested quantity, and leaves
\* the suggestion PO_CREATED with an actioned_date and linked to the order
PurchaseOrderCreated ==
    [][ \A sid \in 1..Len(suggestions) :
          ( /\ IsPo(sid)
            /\ suggestions[sid].status = "PENDING"
            /\ ~IsNone(suggestions[sid].suggested_supplier) ) =>
             /\ Len(orders') = Len(orders) + 1
             /\ SubSeq(orders', 1, Len(orders)) = orders
             /\ orders'[Len(orders')].supplier = Val(suggestions[sid].suggested_supplier)
             /\ Len(lines') = Len(lines) + 1
             /\ SubSeq(lines', 1, Len(lines)) = lines
             /\ lines'[Len(lines')].order = Len(orders')
             /\ lines'[Len(lines')].part = suggestions[sid].rop_policy
             /\ lines'[Len(lines')].quantity = suggestions[sid].suggested_order_qty
             /\ last'.ret = Some(Len(orders'))
             /\ suggestions'[sid].status = "PO_CREATED"
             /\ ~IsNone(suggestions'[sid].actioned_date)
             /\ suggestions'[sid].purchase_order = Some(Len(orders'))
             /\ \A i \in 1..Len(suggestions) :
                   i # sid => suggestions'[i] = suggestions[i] ]_vars

\* an order has just been created from a suggestion
OrderJustCreated ==
    /\ last.op = "po" /\ last.outcome = "created"
    /\ suggestions[last.arg].status = "PO_CREATED"
    /\ suggestions[last.arg].purchase_order = last.ret
    /\ lines[Len(lines)].order = Val(last.ret)
    /\ lines[Len(lines)].quantity > 0

SecondCallUpdatesSameRow ==
    [][ \A p \in Parts :
          ( /\ last.op = "calc" /\ last.arg = p /\ last.cmp = "below"
            /\ IsCalc(p) ) =>
             /\ ~IsNone(last.ret)
             /\ last'.outcome = "updated"
             /\ last'.ret = last.ret
             /\ PendingOf(suggestions', p) = {Val(last.ret)}
             /\ suggestions' = suggestions ]_vars

\* the same, for a part whose policy was there before the first call
SecondCallUpdatesSameRowOfOldPolicy ==
    [][ \A p \in Parts :
          ( /\ last.op = "calc" /\ last.arg = p /\ last.cmp = "below"
            /\ last.outcome # "raised"
            /\ IsCalc(p) ) =>
             /\ ~IsNone(last.ret)
             /\ last'.outcome = "updated"
             /\ last'.ret = last.ret
             /\ PendingOf(suggestions', p) = {Val(last.ret)}
             /\ suggestions' = suggestions ]_vars

----------------------------------------------------------------------------
(* Properties of the batch driver, with the admin actions in play          *)
(* (SpecAdmin)                                                             *)

\* the parts whose policy is enabled
EnabledParts == {p \in Parts : ~IsNone(policies[p]) /\ Val(policies[p]).enabled}

\* the positions of the batch's runs that ended as `outcomes` say
RunsEnding(results, outcomes) ==
    {i \in 1..Len(results.runs) : results.runs[i].outcome \in outcomes}

\* C7: calculate_all_suggestions runs the pipeline once for every enabled
\* policy; a run that raises is one entry of errors and stops no other run;
\* total_parts = parts_analyzed + the number of error entries, and
\* suggestion_count is the number of runs that returned a suggestion
BatchIsolatesFailures ==
    last.op = "batch" =>
       /\ Len(last.results.runs) = Cardinality(EnabledParts)
       /\ {last.results.runs[i].part : i \in 1..Len(last.results.runs)} = EnabledParts
       /\ last.results.total_parts = Cardinality(EnabledParts)
       /\ Len(last.results.errors) =
             Cardinality(RunsEnding(last.results, {"raised"}))
       /\ \A i \in RunsEnding(last.results, {"raised"}) :
             \E e \in 1..Len(last.results.errors) :
                last.results.errors[e] = last.results.runs[i].part
       /\ last.results.total_parts =
             last.results.parts_analyzed + Len(last.results.errors)
       /\ last.results.suggestion_count =
             Cardinality(RunsEnding(last.results, {"created", "updated"}))

\* a batch whose first run raised has gone on to the next policy
BatchWentOnAfterError ==
    /\ last.op = "batch"
    /\ Len(last.results.runs) = 2
    /\ last.results.runs[1].outcome = "raised"
    /\ last.results.errors = << last.results.runs[1].part >>
    /\ last.results.parts_analyzed = 1

----------------------------------------------------------------------------
(* Properties of the quantities calculate_part_rop computes *)

\* the lead time the run uses: 30 days when get_lead_time yields none
lead_time_used(p) == IF IsNone(get_lead_time(p)) THEN 30 ELSE Val(get_lead_time(p))

\* the removals counted in the policy's window, over the days of the window
mean_daily_demand_of(p) ==
    Rat(SumSeq(removal_list(p, get_effective_lookback_days(policy_for(p)))),
        get_effective_lookback_days(policy_for(p)))

\* mean_daily_demand * lead_time_days + safety_stock, from the state before
\* the call
expected_rop(p) ==
    RAdd(RMul(mean_daily_demand_of(p), RInt(lead_time_used(p))),
         calculate_safety_stock(p, policy_for(p),
                                Val(calculate_demand_rate(p, policy_for(p)))))

\* C14: when the statistics succeed, the rop the reorder decision uses, the
\* policy's last_calculated_rop and the suggestion's calculated_rop are
\* mean_daily_demand * lead_time_days + safety_stock, the lead time being 30
\* when the part has none
RopIsLeadTimeDemandPlusSafetyStock ==
    [][ \A p \in Parts :
          (IsCalc(p) /\ StatisticsSucceed(p)) =>
             /\ Val(policies'[p]).last_calculated_rop = Some(Quantize2(expected_rop(p)))
             /\ (last'.outcome = "sufficient")
                    <=> RLe(expected_rop(p), calculate_projected_stock(p))
             /\ (last'.outcome \in {"created", "updated"}) =>
                    suggestions'[Val(last'.ret)].calculated_rop
                        = Quantize2(expected_rop(p)) ]_vars

\* 225 units removed in 90 days, lead time 7 and safety stock 10 have given
\* part 1 the rop 27.50 on its policy and its new suggestion; part 2, which
\* has no lead time, has the rop 3 * 30 + 0 = 90.00
RopOfTheExample ==
    /\ last.op = "calc" /\ last.arg = 1 /\ last.outcome = "created"
    /\ mean_daily_demand_of(1) = Rat(225, 90)
    /\ lead_time_used(1) = 7
    /\ Val(policies[1]).safety_stock = 1000
    /\ Val(policies[1]).last_calculated_rop = Some(2750)
    /\ suggestions[Val(last.ret)].calculated_rop = 2750
    /\ stats[Len(stats)].mean_daily_demand = 25000
    /\ ~IsNone(policies[2])
    /\ lead_time_used(2) = 30
    /\ Val(policies[2]).last_calculated_rop = Some(9000)

\* rop * target_stock_multiplier - projected_stock, not below 0
expected_order_qty(p) ==
    RMax(RInt(0),
         RSub(RMul(expected_rop(p), FromDb2(policy_for(p).target_stock_multiplier)),
              calculate_projected_stock(p)))

\* C15: a suggestion upserted by calculate_part_rop has suggested_order_qty
\* = max(0, rop * target_stock_multiplier - projected_stock)
OrderQuantityFillsToTarget ==
    [][ \A p \in Parts :
          (IsCalc(p) /\ last'.outcome \in {"created", "updated"}) =>
             /\ RLt(calculate_projected_stock(p), expected_rop(p))
             /\ suggestions'[Val(last'.ret)].projected_stock
                    = Quantize2(calculate_projected_stock(p))
             /\ suggestions'[Val(last'.ret)].suggested_order_qty
                    = Quantize2(expected_order_qty(p)) ]_vars

\* rop 27.50, multiplier 2.00 and projected stock 5.00 have given the
\* suggested quantity 50.00
OrderQuantityOfTheExample ==
    /\ last.op = "calc" /\ last.outcome \in {"created", "updated"}
    /\ Val(policies[last.arg]).target_stock_multiplier = 200
    /\ suggestions[Val(last.ret)].calculated_rop = 2750
    /\ suggestions[Val(last.ret)].projected_stock = 500
    /\ suggestions[Val(last.ret)].suggested_order_qty = 5000

\* C16: with at least min_samples removal quantities in the effective
\* window (custom_lookback_days when set, else the global setting), the
\* demand rate the run stores is their sum over the days of the window;
\* with fewer the run ends for lack of data; exactly min_samples suffice
DemandRateIsSumOverWindow ==
    [][ \A p \in Parts :
          (IsCalc(p) /\ ~IsNone(policies[p]) /\ Val(policies[p]).enabled) =>
             IF samples(p) >= MIN_DEMAND_SAMPLES
             THEN /\ Len(stats') = Len(stats) + 1
                  /\ stats'[Len(stats')].mean_daily_demand
                        = Quantize4(mean_daily_demand_of(p))
                  /\ stats'[Len(stats')].total_removals = samples(p)
                  /\ stats'[Len(stats')].analysis_period_days
                        = (IF Val(policies[p]).custom_lookback_days = None
                           THEN LOOKBACK_PERIOD_DAYS
                           ELSE Val(Val(policies[p]).custom_lookback_days))
                  /\ Val(policies'[p]).last_calculated_demand_rate
                        = Some(Quantize4(mean_daily_demand_of(p)))
             ELSE /\ last'.outcome = "insufficient"
                  /\ stats' = stats ]_vars

\* exactly min_samples removals in a custom window of 45 days: 45 + 40 + 40
\* + 40 + 40 = 205 units give the rate 4.5556
CustomWindowAtMinSamples ==
    /\ last.op = "calc" /\ last.outcome # "insufficient"
    /\ Val(policies[last.arg]).custom_lookback_days = Some(45)
    /\ samples(last.arg) = MIN_DEMAND_SAMPLES
    /\ Len(removals[last.arg]) > MIN_DEMAND_SAMPLES
    /\ stats[Len(stats)].total_removals = MIN_DEMAND_SAMPLES
    /\ stats[Len(stats)].analysis_period_days = 45
    /\ stats[Len(stats)].mean_daily_demand = 45556

\* C17: with use_calculated_safety_stock false the safety stock of the run
\* is policy.safety_stock, whatever the demand statistics, the service level
\* and the lead time
ManualSafetyStockUnchanged ==
    [][ \A p \in Parts :
          ( /\ IsCalc(p)
            /\ StatisticsSucceed(p)
            /\ ~policy_for(p).use_calculated_safety_stock ) =>
             /\ stats'[Len(stats')].calculated_safety_stock
                    = Some(policy_for(p).safety_stock)
             /\ Val(policies'[p]).last_calculated_rop
                    = Some(Quantize2(RAdd(RMul(mean_daily_demand_of(p),
                                               RInt(lead_time_used(p))),
                                          FromDb2(policy_for(p).safety_stock)))) ]_vars

\* a manual safety stock of 10.00 used beside a demand that varies, at
\* service level 90
ManualBesideVaryingDemand ==
    /\ last.op = "calc" /\ last.outcome = "created"
    /\ ~Val(policies[last.arg]).use_calculated_safety_stock
    /\ Val(policies[last.arg]).safety_stock = 1000
    /\ Val(policies[last.arg]).service_level = 90
    /\ stats[Len(stats)].std_dev_daily_demand > 0
    /\ stats[Len(stats)].calculated_safety_stock = Some(1000)

----------------------------------------------------------------------------
(* Properties of the policy lookup of calculate_part_rop *)

\* C20: calculate_part_rop for a part whose policy is disabled returns no
\* suggestion and changes no policy, DemandStatistics or suggestion row (a
\* PENDING one stays PENDING); for a part with no policy it creates that
\* part's policy, enabled, and goes on past the enabled test
DisabledPolicyChangesNothing ==
    [][(last'.op = "calc" /\ last'.arg \in Parts) =>
          /\ (~IsNone(policies[last'.arg]) /\ ~Val(policies[last'.arg]).enabled) =>
                /\ last'.ret = None
                /\ UNCHANGED <<policies, stats, suggestions, orders, lines>>
          /\ IsNone(policies[last'.arg]) =>
                /\ ~IsNone(policies'[last'.arg])
                /\ Val(policies'[last'.arg]).enabled
                /\ \A q \in Parts \ {last'.arg} : policies'[q] = policies[q]
                /\ last'.outcome \notin {"disabled", "no_part"}]_vars

\* calculate_part_rop has returned at the enabled test for a part whose
\* disabled policy has a PENDING suggestion
DisabledWithPendingSuggestion ==
    /\ last.op = "calc"
    /\ last.arg \in Parts
    /\ last.outcome = "disabled"
    /\ ~IsNone(policies[last.arg])
    /\ ~Val(policies[last.arg]).enabled
    /\ \E i \in 1..Len(suggestions) :
          suggestions[i].rop_policy = last.arg /\ suggestions[i].status = "PENDING"

----------------------------------------------------------------------------
(* Properties of the suggestions listing (SpecList) *)

\* the rows the last listing had to choose from
listed_candidates ==
    {i \in 1..Len(suggestions) :
        /\ suggestions[i].status = "PENDING"
        /\ suggestions[i].urgency_score >= last.arg.min_urgency}

\* row a comes before row b in every order by descending urgency and,
\* among equal urgency, ascending stockout date
listed_before(a, b) ==
    \/ a.urgency_score > b.urgency_score
    \/ /\ a.urgency_score = b.urgency_score
       /\ ~IsNone(a.stockout_date) /\ ~IsNone(b.stockout_date)
       /\ Val(a.stockout_date) < Val(b.stockout_date)

\* C21: the listing returns only PENDING rows with urgency_score >=
\* min_urgency, at most limit of them, by descending urgency and ascending
\* stockout date, and they are the first limit rows of that ordering
ListingIsFirstRowsOfOrdering ==
    (last.op = "list" /\ last.outcome = "returned") =>
        /\ \A k \in 1..Len(last.ret) : last.ret[k] \in listed_candidates
        /\ \A j, k \in 1..Len(last.ret) : (j # k) => (last.ret[j] # last.ret[k])
        /\ Len(last.ret) <= last.arg.limit
        /\ Len(last.ret) = Min(last.arg.limit, Cardinality(listed_candidates))
        /\ \A j, k \in 1..Len(last.ret) :
              (j < k) => ~listed_before(suggestions[last.ret[k]], suggestions[last.ret[j]])
        /\ \A i \in listed_candidates :
              (\A k \in 1..Len(last.ret) : last.ret[k] # i) =>
                 \A k \in 1..Len(last.ret) :
                    ~listed_before(suggestions[i], suggestions[last.ret[k]])

\* a listing with limit 2 over three PENDING rows has returned the most
\* urgent row and then the earlier of two rows of equal urgency, leaving
\* the later one out
ListingCutAtLimit ==
    /\ last.op = "list"
    /\ last.outcome = "returned"
    /\ last.arg.limit = 2
    /\ last.arg.min_urgency = 5000
    /\ Cardinality(listed_candidates) = 3
    /\ Len(last.ret) = 2
    /\ suggestions[last.ret[1]].urgency_score > suggestions[last.ret[2]].urgency_score
    /\ \E i \in listed_candidates :
          /\ suggestions[i].urgency_score = suggestions[last.ret[2]].urgency_score
          /\ listed_before(suggestions[last.ret[2]], suggestions[i])

----------------------------------------------------------------------------
(* Properties of the statuses under the admin actions (SpecAdmin) *)

\* C27: after any sequence of mark_as_dismissed and mark_as_pending on
\* arbitrary selections, interleaved with engine operations, every policy
\* has at most one PENDING suggestion
AtMostOnePendingUnderAdmin ==
    \A i, j \in 1..Len(suggestions) :
        ( /\ suggestions[i].rop_policy = suggestions[j].rop_policy
          /\ suggestions[i].status = "PENDING"
          /\ suggestions[j].status = "PENDING" ) => (i = j)

----------------------------------------------------------------------------
(* Properties of the closed suggestions (SpecClosed) *)

\* the step is one of the engine's operations
IsEngineStep == last'.op \in {"calc", "batch", "po"}

\* C28: calculate_part_rop, calculate_all_suggestions and
\* generate_purchase_order change no field of a suggestion that is
\* PO_CREATED, DISMISSED or EXPIRED, and take a PENDING suggestion only to
\* EXPIRED, to PO_CREATED or to PENDING
ClosedSuggestionsUntouched ==
    [][ IsEngineStep =>
          /\ Len(suggestions') >= Len(suggestions)
          /\ \A i \in 1..Len(suggestions) :
                /\ (suggestions[i].status \in {"PO_CREATED", "DISMISSED", "EXPIRED"}) =>
                      suggestions'[i] = suggestions[i]
                /\ (suggestions[i].status = "PENDING") =>
                      suggestions'[i].status \in {"PENDING", "EXPIRED", "PO_CREATED"} ]_vars

\* calculate_part_rop has created a suggestion for a part that has an
\* ordered and a dismissed one
CreatedBesideClosed ==
    /\ last.op = "calc"
    /\ last.outcome = "created"
    /\ \E i, j \in 1..Len(suggestions) :
          /\ suggestions[i].rop_policy = last.arg
          /\ suggestions[i].status = "PO_CREATED"
          /\ suggestions[j].rop_policy = last.arg
          /\ suggestions[j].status = "DISMISSED"

----------------------------------------------------------------------------
(* Properties of a calculation after a purchase order (SpecReorder) *)

\* C29: after generate_purchase_order has succeeded for a part's PENDING
\* suggestion, with nothing else changing, the order is a draft and adds
\* nothing to the inbound quantity, so the next calculate_part_rop of the
\* part computes the same projected_stock, creates a new PENDING row with
\* the same suggested_order_qty and leaves the PO_CREATED row as it is
DraftOrderLeavesReorderOpen ==
    [][ \A p \in Parts :
          ( /\ last.op = "po" /\ last.outcome = "created"
            /\ suggestions[last.arg].rop_policy = p
            /\ IsCalc(p) ) =>
             /\ orders[Val(last.ret)].status = "PENDING"
             /\ get_inbound_po_quantity(p) = 0
             /\ last'.outcome = "created"
             /\ Len(suggestions') = Len(suggestions) + 1
             /\ last'.ret = Some(Len(suggestions'))
             /\ suggestions'[Len(suggestions')].rop_policy = p
             /\ suggestions'[Len(suggestions')].status = "PENDING"
             /\ suggestions'[Len(suggestions')].projected_stock =
                   suggestions[last.arg].projected_stock
             /\ suggestions'[Len(suggestions')].suggested_order_qty =
                   suggestions[last.arg].suggested_order_qty
             /\ suggestions'[last.arg] = suggestions[last.arg]
             /\ suggestions[last.arg].status = "PO_CREATED" ]_vars

\* a second PENDING suggestion of the same quantity stands beside the
\* ordered one while its purchase order is still a draft
ReorderSuggestedAgain ==
    /\ last.op = "calc"
    /\ last.outcome = "created"
    /\ \E i \in 1..Len(suggestions) :
          /\ i # Val(last.ret)
          /\ suggestions[i].rop_policy = last.arg
          /\ suggestions[i].status = "PO_CREATED"
          /\ orders[Val(suggestions[i].purchase_order)].status = "PENDING"
          /\ suggestions[Val(last.ret)].status = "PENDING"
          /\ suggestions[Val(last.ret)].suggested_order_qty =
                suggestions[i].suggested_order_qty
          /\ suggestions[i].suggested_order_qty > 0

----------------------------------------------------------------------------
(* Properties of a failing generate_purchase_order (SpecPoRaising) *)

\* C30: when generate_purchase_order returns no order because creating the
\* line item or saving the suggestion raised after the purchase order was
\* created, no purchase order of that call remains and the suggestion is
\* still PENDING with no linked purchase order
NoOrderRemainsAfterRaise ==
    [][ (last'.op = "po" /\ last'.outcome = "raised") =>
          /\ IsNone(last'.ret)
          /\ orders' = orders
          /\ lines' = lines
          /\ suggestions'[last'.arg].status = "PENDING"
          /\ IsNone(suggestions'[last'.arg].purchase_order) ]_vars

\* the suggestion's half of it: after such a call the suggestion is still
\* PENDING with no linked purchase order
SuggestionStillPendingAfterRaise ==
    [][ (last'.op = "po" /\ last'.outcome = "raised") =>
          /\ IsNone(last'.ret)
          /\ suggestions' = suggestions
          /\ suggestions'[last'.arg].status = "PENDING"
          /\ IsNone(suggestions'[last'.arg].purchase_order) ]_vars

----------------------------------------------------------------------------
(* Properties of the stockout prediction (SpecPrediction) *)

\* the points of the series at which the scan for rop ends: a point that
\* lacks 'projected_stock' or a point below rop
scan_ends(series, rop) ==
    {k \in 1..Len(series) :
        IF "projected_stock" \in DOMAIN series[k]
        THEN series[k].projected_stock * rop.d < rop.n * 100
        ELSE TRUE}

first_of(ks) == CHOOSE k \in ks : \A j \in ks : k <= j

\* the scan ends at a point that lacks the key it reads
scan_raises(series, rop) ==
    /\ scan_ends(series, rop) # {}
    /\ \/ "projected_stock" \notin DOMAIN series[first_of(scan_ends(series, rop))]
       \/ "date" \notin DOMAIN series[first_of(scan_ends(series, rop))]

\* the plugin is absent, or its lookup, its series or a point raises
prediction_fails(rop) ==
    \/ IsNone(forecast)
    \/ Val(forecast).raises # "no"
    \/ scan_raises(Val(forecast).series, rop)

\* C24: with a forecast provider that returns a series, the prediction is
\* the date of the first point in series order whose projected_stock is
\* strictly below rop, with the days from today to it, whatever the later
\* points are; with no point below rop it is (None, None), not the estimate
PredictionIsFirstPointBelowRop ==
    (last.op = "prediction" /\ ~prediction_fails(last.arg.rop)) =>
        IF scan_ends(Val(forecast).series, last.arg.rop) = {}
        THEN last.ret = [date |-> None, days |-> None]
        ELSE last.ret =
               [date |-> Some(Val(forecast).series[
                              first_of(scan_ends(Val(forecast).series, last.arg.rop))].date),
                days |-> Some(Val(forecast).series[
                              first_of(scan_ends(Val(forecast).series, last.arg.rop))].date
                              - now)]

\* the first point below rop 90 returned although a later point is dated
\* earlier, for a part whose linear estimate is another date
FirstPointBelowRopReturned ==
    /\ last.op = "prediction"
    /\ last.arg.rop = RInt(90)
    /\ ~IsNone(forecast)
    /\ Val(forecast).raises = "no"
    /\ Len(Val(forecast).series) = 3
    /\ last.ret = [date |-> Some(105), days |-> Some(5)]
    /\ Val(forecast).series[2].date = 103
    /\ estimate_stockout_simple(policies, last.arg.part, last.arg.rop) # last.ret

\* C25: when the provider is absent or its lookup, its series or a point
\* raises, get_stockout_prediction returns what estimate_stockout_simple
\* returns for the same part and rop, and calculate_part_rop still writes
\* the suggestion, with that estimate
PredictionFallsBackToEstimate ==
    /\ (last.op = "prediction" /\ prediction_fails(last.arg.rop)) =>
          last.ret = estimate_stockout_simple(policies, last.arg.part, last.arg.rop)
    /\ (/\ last.op = "calc"
        /\ last.cmp = "below"
        /\ prediction_fails(FromDb2(Val(Val(policies[last.arg]).last_calculated_rop)))) =>
          /\ last.outcome \in {"created", "updated"}
          /\ ~IsNone(last.ret)
          /\ suggestions[Val(last.ret)].status = "PENDING"
          /\ suggestions[Val(last.ret)].days_until_stockout =
                estimate_stockout_simple(policies, last.arg,
                    FromDb2(Val(Val(policies[last.arg]).last_calculated_rop))).days
          /\ suggestions[Val(last.ret)].stockout_date =
                estimate_stockout_simple(policies, last.arg,
                    FromDb2(Val(Val(policies[last.arg]).last_calculated_rop))).date

\* calculate_part_rop has written a suggestion with the linear estimate
\* while the plugin's get_forecast_for_part raises
SuggestionWrittenDespiteRaisingProvider ==
    /\ last.op = "calc"
    /\ last.outcome = "created"
    /\ ~IsNone(forecast)
    /\ Val(forecast).raises = "fetch"
    /\ ~IsNone(last.ret)
    /\ suggestions[Val(last.ret)].days_until_stockout = Some(0)
    /\ suggestions[Val(last.ret)].stockout_date = Some(now)

----------------------------------------------------------------------------
(* Properties of the supplier selection (SpecSupplier) *)

\* the positions of the supplier parts flagged as supplier and active
qualifying(sps) ==
    {i \in 1..Len(sps) : sps[i].is_supplier /\ sps[i].is_active}

\* the supplier chosen when the options in `leading` count as having a lead
\* time: the first qualifying one of them, else the first qualifying
\* option, else none
chosen_by(sps, leading) ==
    IF qualifying(sps) = {} THEN None
    ELSE IF qualifying(sps) \cap leading # {}
    THEN Some(sps[first_of(qualifying(sps) \cap leading)].supplier)
    ELSE Some(sps[first_of(qualifying(sps))].supplier)

\* C26: get_preferred_supplier returns the supplier of the first active
\* supplier option, in query order, that has a known lead time; if none has
\* one the first active option's; if there is no active option none; never
\* an inactive or non-supplier company
PreferredSupplierHasKnownLeadTime ==
    (last.op = "supplier") =>
        /\ last.ret = chosen_by(last.arg,
                                {i \in 1..Len(last.arg) : ~IsNone(last.arg[i].lead_time)})
        /\ ~IsNone(last.ret) =>
              \E i \in qualifying(last.arg) : last.arg[i].supplier = Val(last.ret)

\* the same with a lead time of 0 days counted as unknown
PreferredSupplierHasNonZeroLeadTime ==
    (last.op = "supplier") =>
        /\ last.ret = chosen_by(last.arg,
                                {i \in 1..Len(last.arg) : Truthy(last.arg[i].lead_time)})
        /\ ~IsNone(last.ret) =>
              \E i \in qualifying(last.arg) : last.arg[i].supplier = Val(last.ret)

----------------------------------------------------------------------------
(* Properties of the projected stock (SpecInbound) *)

\* quantity - received of line i when it is a line of part p, not fully
\* received, on an order in one of the states `counted`, otherwise 0
outstanding_of(i, p, counted) ==
    IF /\ lines[i].part = p
       /\ lines[i].received < lines[i].quantity
       /\ orders[lines[i].order].status \in counted
    THEN lines[i].quantity - lines[i].received
    ELSE 0

outstanding_on(p, counted) ==
    SumSeq([i \in 1..Len(lines) |-> outstanding_of(i, p, counted)])

\* C23: get_inbound_po_quantity is the sum of quantity - received over the
\* part's lines with received < quantity on issued (placed) orders, lines
\* of draft orders, of orders in any other state and fully received lines
\* adding nothing; projected stock is stock + that sum - allocated
InboundCountsIssuedOrdersOnly ==
    (last.op = "projected") =>
        /\ last.ret.inbound = outstanding_on(last.arg, {"PLACED"})
        /\ last.ret.projected =
              Rat(stock[last.arg] + outstanding_on(last.arg, {"PLACED"})
                    - allocated[last.arg], 100)

\* the same with the lines of completed orders counted too
InboundCountsIssuedAndCompleteOrders ==
    (last.op = "projected") =>
        /\ last.ret.inbound = outstanding_on(last.arg, {"PLACED", "COMPLETE"})
        /\ last.ret.projected =
              Rat(stock[last.arg] + outstanding_on(last.arg, {"PLACED", "COMPLETE"})
                    - allocated[last.arg], 100)

----------------------------------------------------------------------------
(* Properties of the lookups (SpecLookups) *)

\* the entries of the table: level in tenths of a percent, score in
\* thousandths
ZTable ==
    { <<500, 0>>, <<750, 674>>, <<800, 842>>, <<850, 1036>>, <<900, 1282>>,
      <<950, 1645>>, <<970, 1881>>, <<980, 2054>>, <<990, 2326>>, <<995, 2576>>,
      <<999, 3090>> }

floor_of(q) == q.n \div q.d

\* the days of the linear projection for the part and rop of the last call
projected_days ==
    Max(0, floor_of(RDiv(RSub(Rat(stock[last.arg.part], 100), last.arg.rop),
                         FromDb4(Val(Val(policies[last.arg.part]).last_calculated_demand_rate)))))

\* the cached demand rate is unknown or not positive
no_demand_rate(p) ==
    \/ Val(policies[p]).last_calculated_demand_rate = None
    \/ Val(Val(policies[p]).last_calculated_demand_rate) <= 0

\* C19: estimate_stockout_simple returns (None, None) when the cached
\* demand rate is unknown or <= 0, and otherwise
\* days = max(0, floor((current_stock - rop) / demand_rate)), date = today + days
StockoutEstimateIsLinear ==
    (last.op = "estimate") =>
        IF no_demand_rate(last.arg.part)
        THEN last.ret = [date |-> None, days |-> None]
        ELSE last.ret = [date |-> Some(now + projected_days),
                         days |-> Some(projected_days)]

\* the same for the estimates whose date is no later than date.max
StockoutEstimateIsLinearUpToDateMax ==
    (last.op = "estimate") =>
        IF no_demand_rate(last.arg.part)
        THEN last.ret = [date |-> None, days |-> None]
        ELSE (now + projected_days <= DateMaxDay) =>
                last.ret = [date |-> Some(now + projected_days),
                            days |-> Some(projected_days)]

----------------------------------------------------------------------------
(* Properties of the saved urgency score *)

\* the score of the row's stored fields
score_of(row) ==
    calculate_urgency_score(row.days_until_stockout, FromDb2(row.projected_stock),
                            FromDb2(row.calculated_rop), row.lead_time_days)

\* C13: every stored suggestion's urgency_score is calculate_urgency_score
\* of its stored days_until_stockout, projected_stock, calculated_rop and
\* lead_time_days
StoredScoreIsComputed ==
    \A i \in 1..Len(suggestions) : suggestions[i].urgency_score = score_of(suggestions[i])

\* the row a step has inserted, or saved whole through save()
saved_by(step) ==
    IF step.op = "po" THEN step.arg ELSE Val(step.ret)

\* an insert by calculate_part_rop or by create_test_data, and the save of
\* generate_purchase_order, leave the row with the score of its stored fields
InsertedOrActionedScoreIsComputed ==
    [][ (last'.op \in {"calc", "testdata", "po"} /\ last'.outcome = "created")
            => suggestions'[saved_by(last')].urgency_score
                   = score_of(suggestions'[saved_by(last')]) ]_vars

----------------------------------------------------------------------------
(* Properties of concurrent invocations (SpecConc) *)

\* C2: with two invocations of calculate_part_rop for the same part
\* interleaved, no two distinct suggestions of one policy are PENDING
NoDuplicatePendingWhenInterleaved ==
    \A i \in 1..Len(suggestions) : \A j \in 1..Len(suggestions) :
        ( /\ i # j
          /\ suggestions[i].rop_policy = suggestions[j].rop_policy
          /\ suggestions[i].status = "PENDING" )
        => suggestions[j].status # "PENDING"

====
